---- MODULE Spec2Model ----
(***************************************************************************)
(* A model of razorback_investing:                                         *)
(*   - YouTubeAPIClient   (youtube_analyzer/libs/youtube_api_client.py),   *)
(*     single-threaded and constructed from two threads                    *)
(*   - Video              (youtube_analyzer/libs/video.py)                 *)
(*   - BaseChannelClient / YouTubeChannelClient                            *)
(*                        (youtube_analyzer/libs/channel_client.py)        *)
(*   - LLMProcessor       (youtube_analyzer/llm_processor.py)              *)
(*   - YouTubeVideoClient (youtube_analyzer/libs/video_client.py)          *)
(*   - the video CLI      (youtube_analyzer/apps/video.py)                 *)
(*   - YouTubeSummary, fetch_videos and Video of the news analyzer (news/) *)
(*   - iso_duration_to_minutes (youtube_analyzer/libs/utils.py)            *)
(*   - demark_setup, demark_countdown (technical_analysis/demark.py)       *)
(* Each component has its own specification over its own group of          *)
(* variables; the other groups stay at their initial values.               *)
(***************************************************************************)
EXTENDS Integers, Sequences, FiniteSets, TLC

VARIABLES
    \* ---- YouTubeAPIClient ------------------------------------------------
    working_key,    \* YouTubeAPIClient._working_key (class level)
    environ,        \* os.environ: <<YOUTUBE_API_KEY, _2, _3>>
    key_state,      \* the server's view of each key: "ok", "quota", "invalid"
    self,           \* the instance whose __init__ is running
    client,         \* the instance last constructed, used for requests
    pc,             \* position inside __init__
    ctor,           \* history of the running / last construction
    last_success,   \* history: key of the latest successful probe
    call,           \* history of the last request-level call
    \* ---- Video.get_transcript --------------------------------------------
    video,          \* the Video object: language, transcript, fetched flag
    provider,       \* what the transcript provider holds for the video
    tcall,          \* history of the last get_transcript call
    \* ---- channel client: the cache of video clients ------------------------
    video_clients,  \* _video_clients, in insertion order: <<[id, obj, processors]>>
    processors,     \* the names in the channel's _processors
    next_obj,       \* the next object identity to allocate
    cget,           \* history of the last create_or_get_video_client call
    handed_out,     \* history: the objects returned so far for each video id
    raised_for,     \* history: the video ids whose client construction raised
    \* ---- channel client: update_video_ids ----------------------------------
    video_ids,      \* self.video_ids
    last_update,    \* self.last_update: 0 for None, else the number of the call that set it
    upd,            \* the running / last update_video_ids call
    \* ---- LLMProcessor ------------------------------------------------------
    llm,            \* the processor: chat chain present, memory, chat_context
    lcall,          \* history of the last call on the processor
    \* ---- YouTubeVideoClient: analyze_video and chat ------------------------
    vclient,        \* the video client: transcript, processors, analysis_results
    vcall,          \* history of the last analyze_video / chat call
    \* ---- YouTubeSummary.run_pipeline ---------------------------------------
    prun,           \* the running / last run_pipeline call
    \* ---- apply_tasks_on_all_transcripts -------------------------------------
    df,             \* the table: one row per video, with Transcript and Summary
    scall,          \* history of the last apply_tasks_on_all_transcripts call
    \* ---- YouTubeSummary._fetch_videos ---------------------------------------
    summary,        \* the YouTubeSummary object: df, and the saved file
    fcall,          \* history of the last _fetch_videos call
    \* ---- Video: serialize_video_to_json / create_from_json_file -------------
    jvideo,         \* the Video objects (original and loaded) and the file
    \* ---- iso_duration_to_minutes --------------------------------------------
    dur,            \* a duration string and the value computed for it
    \* ---- demark_setup -------------------------------------------------------
    bars,           \* the table of bars: Close, and Setup / Countdown once computed
    \* ---- YouTubeAPIClient constructed from several threads -----------------
    thread,         \* each thread's position in __init__ and its instance
    last_pin,       \* history: the thread that wrote _working_key last
    \* ---- Video.fetch_transcript of the news analyzer -----------------------
    nvideo,         \* the running / last fetch_transcript call and the object
    \* ---- the video CLI: main and chat_mode ---------------------------------
    cli             \* the command line, the client and the chat loop

keyVars == <<working_key, environ, key_state, self, client, pc, ctor,
             last_success, call>>
transcriptVars == <<video, provider, tcall>>
cacheVars == <<video_clients, processors, next_obj, cget, handed_out, raised_for>>
idsVars == <<video_ids, last_update, upd>>

llmVars == <<llm, lcall>>
videoClientVars == <<vclient, vcall>>
pipelineVars == <<prun>>
summariesVars == <<df, scall>>
fetchVars == <<summary, fcall>>
jsonVars == <<jvideo>>
durationVars == <<dur>>
demarkVars == <<bars>>

retrievalVars == <<keyVars, transcriptVars, cacheVars, idsVars>>
analysisVars == <<llmVars, videoClientVars, pipelineVars, summariesVars,
                  fetchVars, jsonVars, durationVars, demarkVars>>

threadVars == <<thread, last_pin>>
newsVars == <<nvideo>>
cliVars == <<cli>>
appVars == <<threadVars, newsVars, cliVars>>

vars == <<retrievalVars, analysisVars, appVars>>

nonKeyVars == <<transcriptVars, cacheVars, idsVars, analysisVars, appVars>>
nonTranscriptVars == <<keyVars, cacheVars, idsVars, analysisVars, appVars>>
nonCacheVars == <<keyVars, transcriptVars, idsVars, analysisVars, appVars>>
nonIdsVars == <<keyVars, transcriptVars, cacheVars, analysisVars, appVars>>
nonLlmVars == <<retrievalVars, videoClientVars, pipelineVars, summariesVars,
                fetchVars, jsonVars, durationVars, demarkVars, appVars>>
nonVideoClientVars == <<retrievalVars, llmVars, pipelineVars, summariesVars,
                        fetchVars, jsonVars, durationVars, demarkVars, appVars>>
nonPipelineVars == <<retrievalVars, llmVars, videoClientVars, summariesVars,
                     fetchVars, jsonVars, durationVars, demarkVars, appVars>>
nonSummariesVars == <<retrievalVars, llmVars, videoClientVars, pipelineVars,
                      fetchVars, jsonVars, durationVars, demarkVars, appVars>>
nonFetchVars == <<retrievalVars, llmVars, videoClientVars, pipelineVars,
                  summariesVars, jsonVars, durationVars, demarkVars, appVars>>
nonJsonVars == <<retrievalVars, llmVars, videoClientVars, pipelineVars,
                 summariesVars, fetchVars, durationVars, demarkVars, appVars>>
nonDurationVars == <<retrievalVars, llmVars, videoClientVars, pipelineVars,
                     summariesVars, fetchVars, jsonVars, demarkVars, appVars>>
nonDemarkVars == <<retrievalVars, llmVars, videoClientVars, pipelineVars,
                   summariesVars, fetchVars, jsonVars, durationVars, appVars>>
nonThreadVars == <<transcriptVars, cacheVars, idsVars, analysisVars, newsVars, cliVars>>
nonNewsVars == <<retrievalVars, analysisVars, threadVars, cliVars>>
nonCliVars == <<retrievalVars, analysisVars, threadVars, newsVars>>

-----------------------------------------------------------------------------
(* Bounds of the model.                                                     *)

\* constructions of YouTubeAPIClient explored in one process
MaxConstructs == 2

-----------------------------------------------------------------------------
(* Values.                                                                  *)

None == "None"
Keys == {"k1", "k2", "k3"}
KeyOpt == Keys \cup {None}

KeyStates == {"ok", "quota", "invalid"}

\* What request.execute() can produce: a response (status 200, with or
\* without items) or an HttpError.  Of an HttpError the code reads
\* status_code, error_details[0]['reason'] (default 'unknown') and
\* str(error).lower(), of which it only asks whether it mentions "quota" or
\* "private".
Statuses == {400, 401, 403, 404, 500}
Reasons == {"rateLimitExceeded", "unknown"}
Texts == {"private", "plain"}

QuotaError == [status |-> 403, reason |-> "quotaExceeded", text |-> "quota", items |-> 0]
InvalidKeyError == [status |-> 400, reason |-> "unknown", text |-> "plain", items |-> 0]
OkResponse(n) == [status |-> 200, reason |-> "ok", text |-> "plain", items |-> n]

HttpErrors ==
    {QuotaError} \cup
    [status : Statuses, reason : Reasons, text : Texts \cup {"quota"}, items : {0}]

Responses == {OkResponse(0), OkResponse(1)} \cup HttpErrors

IsHttpError(r) == r.status # 200

\* The response of the server to a request made under key k.
ResponsesUnder(k) ==
    CASE key_state[k] = "quota" -> {QuotaError}
      [] key_state[k] = "invalid" -> {InvalidKeyError}
      [] OTHER -> Responses \ {QuotaError}

\* Exceptions: the class, the message, and the HttpError it was raised from
\* (or is).
NoError == [status |-> 0, reason |-> "none", text |-> "none", items |-> 0]
Exc(kind, msg, error) == [kind |-> kind, msg |-> msg, error |-> error]
NoExc == Exc("none", <<>>, NoError)

-----------------------------------------------------------------------------
(* The groups of variables a specification does not use stay at these       *)
(* values.                                                                  *)

NoVideo == [transcript_language |-> "en", transcript |-> <<>>,
            transcript_fetched |-> FALSE]
NoProvider == [available |-> {}, raw |-> ""]
NoTCall == [made |-> FALSE, cached |-> FALSE, language |-> "en",
            behaviours |-> <<>>, attempts |-> 0, contacts |-> 0,
            outcome |-> "none", value |-> <<>>]

IdleTranscript ==
    /\ video = NoVideo
    /\ provider = NoProvider
    /\ tcall = NoTCall

VideoIds == {"a", "b", "c"}

NoCGet == [made |-> FALSE, video_id |-> "a", hit |-> FALSE, outcome |-> "none",
           returned |-> 0, built |-> 0, before |-> <<>>]

IdleCache ==
    /\ video_clients = <<>>
    /\ processors = {}
    /\ next_obj = 1
    /\ cget = NoCGet
    /\ handed_out = [v \in VideoIds |-> {}]
    /\ raised_for = {}

\* Of an update_video_ids call: its local variables (search_params,
\* page_token, new_video_ids) and its history (video_ids before the call, the
\* pages received, the nextPageToken of the last one, the ids the pages
\* brought that the list did not hold, whether a request failed, the value
\* returned).
NoUpd == [n |-> 0, running |-> FALSE, search_params |-> {}, page_token |-> None,
          new_video_ids |-> <<>>, before |-> <<>>, pages |-> 0,
          last_next |-> None, brought |-> <<>>, failed |-> FALSE,
          returned |-> <<>>]

IdleIds ==
    /\ video_ids = <<>>
    /\ last_update = 0
    /\ upd = NoUpd

\* The components of the analysis layer (LLMProcessor, YouTubeVideoClient,
\* YouTubeSummary, ...), the threads, the news analyzer's Video and the CLI
\* do not exist in a specification that does not use them; group names the
\* one group that does exist.
Unused == "unused"

IdleAnalysisExcept(group) ==
    /\ IF group = "llm" THEN TRUE ELSE llm = Unused /\ lcall = Unused
    /\ IF group = "videoClient" THEN TRUE ELSE vclient = Unused /\ vcall = Unused
    /\ IF group = "pipeline" THEN TRUE ELSE prun = Unused
    /\ IF group = "summaries" THEN TRUE ELSE df = Unused /\ scall = Unused
    /\ IF group = "fetch" THEN TRUE ELSE summary = Unused /\ fcall = Unused
    /\ IF group = "json" THEN TRUE ELSE jvideo = Unused
    /\ IF group = "duration" THEN TRUE ELSE dur = Unused
    /\ IF group = "demark" THEN TRUE ELSE bars = Unused
    /\ IF group = "thread" THEN TRUE ELSE thread = Unused /\ last_pin = Unused
    /\ IF group = "news" THEN TRUE ELSE nvideo = Unused
    /\ IF group = "cli" THEN TRUE ELSE cli = Unused

IdleAnalysis == IdleAnalysisExcept("none")

-----------------------------------------------------------------------------
(* YouTubeAPIClient.__init__ and _try_key.                                  *)

NoSelf == [primary_key |-> None, secondary_key |-> None, tertiary_key |-> None,
           current_key |-> None, tried_keys |-> {}, youtube |-> None]

NoCtor == [n |-> 0, api_key |-> None, working_at_start |-> None,
           key_state |-> [k \in Keys |-> "ok"],
           probes |-> <<>>, result |-> "none"]

NoCall == [op |-> "none", key |-> None, resp |-> OkResponse(0), requests |-> 0,
           keys_used |-> <<>>, outcome |-> "none", exc |-> NoExc]

\* The test request of _try_key under `key`.
ProbeResponse(key) ==
    CASE key_state[key] = "ok" -> OkResponse(1)
      [] key_state[key] = "quota" -> QuotaError
      [] OTHER -> InvalidKeyError

\* _try_key without the write to the class-level working key.
TryKey_NoPin(s, wk, key) ==
    IF key \in s.tried_keys
    THEN [self |-> s, working_key |-> wk, ret |-> "False", probed |-> FALSE]
    ELSE LET s1 == [s EXCEPT !.tried_keys = @ \cup {key}, !.youtube = key]
             r == ProbeResponse(key)
         IN  IF ~IsHttpError(r)
             THEN [self |-> [s1 EXCEPT !.current_key = key],
                   working_key |-> wk, ret |-> "True", probed |-> TRUE]
             ELSE IF r.status = 403 /\ r.text = "quota"
             THEN [self |-> s1, working_key |-> wk, ret |-> "False", probed |-> TRUE]
             ELSE [self |-> s1, working_key |-> wk, ret |-> "raise", probed |-> TRUE]

\* _try_key in which every HttpError counts as a failed probe.
TryKey_AnyErrorFalse(s, wk, key) ==
    IF key \in s.tried_keys
    THEN [self |-> s, working_key |-> wk, ret |-> "False", probed |-> FALSE]
    ELSE LET s1 == [s EXCEPT !.tried_keys = @ \cup {key}, !.youtube = key]
             r == ProbeResponse(key)
         IN  IF ~IsHttpError(r)
             THEN [self |-> [s1 EXCEPT !.current_key = key],
                   working_key |-> key, ret |-> "True", probed |-> TRUE]
             ELSE [self |-> s1, working_key |-> wk, ret |-> "False", probed |-> TRUE]

\* _try_key without the tried-keys check.
TryKey_NoTried(s, wk, key) ==
    LET s1 == [s EXCEPT !.tried_keys = @ \cup {key}, !.youtube = key]
        r == ProbeResponse(key)
    IN  IF ~IsHttpError(r)
        THEN [self |-> [s1 EXCEPT !.current_key = key],
              working_key |-> key, ret |-> "True", probed |-> TRUE]
        ELSE IF r.status = 403 /\ r.text = "quota"
        THEN [self |-> s1, working_key |-> wk, ret |-> "False", probed |-> TRUE]
        ELSE [self |-> s1, working_key |-> wk, ret |-> "raise", probed |-> TRUE]

\* _try_key(key) on instance s with class-level working key wk: the instance
\* and working key afterwards, what the call did ("True", "False", "raise")
\* and whether it sent the test request.
TryKey(s, wk, key) ==
    IF key \in s.tried_keys
    THEN [self |-> s, working_key |-> wk, ret |-> "False", probed |-> FALSE]
    ELSE LET s1 == [s EXCEPT !.tried_keys = @ \cup {key}, !.youtube = key]
             r == ProbeResponse(key)
         IN  IF ~IsHttpError(r)
             THEN [self |-> [s1 EXCEPT !.current_key = key],
                   working_key |-> key, ret |-> "True", probed |-> TRUE]
             ELSE IF r.status = 403 /\ r.text = "quota"
             THEN [self |-> s1, working_key |-> wk, ret |-> "False", probed |-> TRUE]
             ELSE [self |-> s1, working_key |-> wk, ret |-> "raise", probed |-> TRUE]

\* The history of a probe.
Logged(t, key) ==
    IF t.probed
    THEN Append(ctor.probes, [key |-> key, resp |-> ProbeResponse(key)])
    ELSE ctor.probes

\* One `if key and self._try_key(key)` step of __init__: return on True,
\* propagate on raise, fall through to `next` on False; falling off the last
\* step raises YouTubeQuotaExceededError.
TryStep(key, next) ==
    IF key = None
    THEN /\ UNCHANGED <<self, working_key, client, last_success>>
         /\ IF next = "raise_quota"
            THEN /\ pc' = "idle"
                 /\ ctor' = [ctor EXCEPT !.result = "YouTubeQuotaExceededError"]
            ELSE /\ pc' = next
                 /\ UNCHANGED ctor
    ELSE LET t == TryKey(self, working_key, key)
         IN  /\ self' = t.self
             /\ working_key' = t.working_key
             /\ CASE t.ret = "True" ->
                      /\ pc' = "idle"
                      /\ client' = t.self
                      /\ last_success' = key
                      /\ ctor' = [ctor EXCEPT !.probes = Logged(t, key), !.result = "ok"]
                  [] t.ret = "raise" ->
                      /\ pc' = "idle"
                      /\ ctor' = [ctor EXCEPT !.probes = Logged(t, key), !.result = "HttpError"]
                      /\ UNCHANGED <<client, last_success>>
                  [] OTHER ->
                      /\ UNCHANGED <<client, last_success>>
                      /\ IF next = "raise_quota"
                         THEN /\ pc' = "idle"
                              /\ ctor' = [ctor EXCEPT !.probes = Logged(t, key),
                                                      !.result = "YouTubeQuotaExceededError"]
                         ELSE /\ pc' = next
                              /\ ctor' = [ctor EXCEPT !.probes = Logged(t, key)]

\* __init__ without the working-key shortcut: every construction reads the
\* keys and probes.
Construct_NoShortcut(api_key) ==
    /\ UNCHANGED nonKeyVars
    /\ pc = "idle"
    /\ ctor.n < MaxConstructs
    /\ call' = NoCall
    /\ UNCHANGED <<working_key, environ, key_state, last_success, client>>
    /\ LET primary == IF api_key # None THEN api_key ELSE environ[1]
       IN  /\ self' = [NoSelf EXCEPT !.primary_key = primary,
                                     !.secondary_key = environ[2],
                                     !.tertiary_key = environ[3]]
           /\ pc' = IF primary = None THEN "idle" ELSE "try_primary"
           /\ ctor' = [n |-> ctor.n + 1, api_key |-> api_key,
                       working_at_start |-> working_key,
                       key_state |-> key_state, probes |-> <<>>,
                       result |-> IF primary = None THEN "ValueError" ELSE "running"]

\* __init__ up to the first probe: the working-key shortcut, the reading of
\* the keys, the check of the primary key.
Construct(api_key) ==
    /\ UNCHANGED nonKeyVars
    /\ pc = "idle"
    /\ ctor.n < MaxConstructs
    /\ call' = NoCall
    /\ UNCHANGED <<working_key, environ, key_state, last_success>>
    /\ LET started == [n |-> ctor.n + 1, api_key |-> api_key,
                       working_at_start |-> working_key,
                       key_state |-> key_state,
                       probes |-> <<>>, result |-> "running"]
       IN  IF working_key # None
           THEN /\ self' = [NoSelf EXCEPT !.youtube = working_key,
                                          !.current_key = working_key]
                /\ client' = self'
                /\ pc' = "idle"
                /\ ctor' = [started EXCEPT !.result = "ok"]
           ELSE LET primary == IF api_key # None THEN api_key ELSE environ[1]
                IN  /\ self' = [NoSelf EXCEPT !.primary_key = primary,
                                              !.secondary_key = environ[2],
                                              !.tertiary_key = environ[3]]
                    /\ UNCHANGED client
                    /\ IF primary = None
                       THEN /\ pc' = "idle"
                            /\ ctor' = [started EXCEPT !.result = "ValueError"]
                       ELSE /\ pc' = "try_primary"
                            /\ ctor' = started

TryPrimary ==
    /\ UNCHANGED nonKeyVars
    /\ pc = "try_primary"
    /\ TryStep(self.primary_key, "try_secondary")
    /\ UNCHANGED <<environ, key_state, call>>

TrySecondary ==
    /\ UNCHANGED nonKeyVars
    /\ pc = "try_secondary"
    /\ TryStep(self.secondary_key, "try_tertiary")
    /\ UNCHANGED <<environ, key_state, call>>

TryTertiary ==
    /\ UNCHANGED nonKeyVars
    /\ pc = "try_tertiary"
    /\ TryStep(self.tertiary_key, "raise_quota")
    /\ UNCHANGED <<environ, key_state, call>>

\* The environment: a key's daily quota runs out.
ExhaustKey(k) ==
    /\ UNCHANGED nonKeyVars
    /\ pc = "idle"
    /\ key_state[k] = "ok"
    /\ key_state' = [key_state EXCEPT ![k] = "quota"]
    /\ call' = NoCall    \* the history of a call is kept while the server state is the one it met
    /\ UNCHANGED <<working_key, environ, self, client, pc, ctor, last_success>>

FreshProcess ==
    /\ working_key = None
    /\ self = NoSelf
    /\ client = NoSelf
    /\ pc = "idle"
    /\ ctor = NoCtor
    /\ last_success = None
    /\ call = NoCall

InitKeyVars ==
    /\ environ \in [1..3 -> KeyOpt]
    /\ key_state \in [Keys -> KeyStates]
    /\ FreshProcess

IdleKey ==
    /\ environ = <<None, None, None>>
    /\ key_state = [k \in Keys |-> "ok"]
    /\ FreshProcess

InitKey ==
    /\ InitKeyVars
    /\ IdleTranscript
    /\ IdleCache
    /\ IdleIds
    /\ IdleAnalysis

NextKey ==
    \/ \E api_key \in KeyOpt : Construct(api_key)
    \/ TryPrimary
    \/ TrySecondary
    \/ TryTertiary
    \/ \E k \in Keys : ExhaustKey(k)

SpecKey == InitKey /\ [][NextKey]_vars

-----------------------------------------------------------------------------
(* Requests: _handle_api_error, execute_api_request, get_video_metadata,    *)
(* get_channel_videos, get_channel_id.                                      *)

\* _handle_api_error in which a 403 with another reason returns normally.
HandleApiError_Fallthrough(error) ==
    IF error.status = 403
    THEN IF error.reason = "quotaExceeded"
         THEN Exc("YouTubeQuotaExceededError", <<"YouTube API quota exceeded">>, error)
         ELSE IF error.reason = "rateLimitExceeded"
         THEN Exc("YouTubeRateLimitError", <<"Too many requests">>, error)
         ELSE NoExc
    ELSE IF error.status = 404
    THEN Exc("YouTubeVideoNotFoundError", <<"Video not found or has been removed">>, error)
    ELSE IF error.status = 401
    THEN Exc("ValueError", <<"Invalid API key or authentication required">>, error)
    ELSE IF error.status = 400
    THEN IF error.text = "private"
         THEN Exc("YouTubePrivateVideoError", <<"This video is private">>, error)
         ELSE Exc("ValueError", <<"Invalid request">>, error)
    ELSE Exc("HttpError", <<"HttpError">>, error)

\* _handle_api_error(error): the exception it raises; NoExc would be a normal
\* return.  A 403 whose reason is neither quotaExceeded nor rateLimitExceeded
\* leaves the if/elif chain and reaches the final `raise error`.
HandleApiError(error) ==
    IF error.status = 403
    THEN IF error.reason = "quotaExceeded"
         THEN Exc("YouTubeQuotaExceededError", <<"YouTube API quota exceeded">>, error)
         ELSE IF error.reason = "rateLimitExceeded"
         THEN Exc("YouTubeRateLimitError", <<"Too many requests">>, error)
         ELSE Exc("HttpError", <<"HttpError">>, error)
    ELSE IF error.status = 404
    THEN Exc("YouTubeVideoNotFoundError", <<"Video not found or has been removed">>, error)
    ELSE IF error.status = 401
    THEN Exc("ValueError", <<"Invalid API key or authentication required">>, error)
    ELSE IF error.status = 400
    THEN IF error.text = "private"
         THEN Exc("YouTubePrivateVideoError", <<"This video is private">>, error)
         ELSE Exc("ValueError", <<"Invalid request">>, error)
    ELSE Exc("HttpError", <<"HttpError">>, error)

\* The result of a call: a value returned or an exception raised, and the
\* keys under which it sent requests, one entry per request.execute().
Returned(cl) == [outcome |-> "return", exc |-> NoExc, keys_used |-> <<cl.youtube>>]
Raised(cl, e) ==
    IF e = NoExc THEN Returned(cl)
    ELSE [outcome |-> "raise", exc |-> e, keys_used |-> <<cl.youtube>>]

\* execute_api_request(request), `resp` being what request.execute() yields.
ExecuteApiRequest(cl, resp) ==
    IF IsHttpError(resp) THEN Raised(cl, HandleApiError(resp)) ELSE Returned(cl)

\* get_video_metadata(video_id)
GetVideoMetadata(cl, resp) ==
    IF IsHttpError(resp) THEN Raised(cl, HandleApiError(resp))
    ELSE IF resp.items = 0
    THEN Raised(cl, Exc("YouTubeVideoNotFoundError", <<"No video found with ID">>, NoError))
    ELSE Returned(cl)

\* get_channel_videos(channel_id, **kwargs)
GetChannelVideos(cl, resp) ==
    IF IsHttpError(resp) THEN Raised(cl, HandleApiError(resp)) ELSE Returned(cl)

\* get_channel_id that lets the exceptions of execute_api_request through.
GetChannelId_NoWrap(cl, resp) ==
    LET r == ExecuteApiRequest(cl, resp)
    IN  IF r.outcome = "raise" THEN r
        ELSE IF resp.items > 0 THEN r
        ELSE [r EXCEPT !.outcome = "raise",
                       !.exc = Exc("ValueError", <<"No channel found for @">>, NoError)]

\* get_channel_id(username): whatever is raised inside the try block, the
\* "no channel found" ValueError included, is caught by `except Exception`
\* and replaced by ValueError("Error fetching channel ID: " + str(e)).
GetChannelId(cl, resp) ==
    LET r == ExecuteApiRequest(cl, resp)
        inner == IF r.outcome = "raise" THEN r.exc
                 ELSE IF resp.items > 0 THEN NoExc
                 ELSE Exc("ValueError", <<"No channel found for @">>, NoError)
    IN  IF inner = NoExc THEN r
        ELSE [r EXCEPT !.outcome = "raise",
                       !.exc = Exc("ValueError",
                                   <<"Error fetching channel ID: ">> \o inner.msg,
                                   NoError)]

Called(op, resp, r) ==
    [op |-> op, key |-> client.youtube, resp |-> resp,
     requests |-> Len(r.keys_used), keys_used |-> r.keys_used,
     outcome |-> r.outcome, exc |-> r.exc]

CanCall ==
    /\ pc = "idle"
    /\ client.youtube # None

CallExecuteApiRequest ==
    /\ UNCHANGED nonKeyVars
    /\ CanCall
    /\ \E resp \in ResponsesUnder(client.youtube) :
           call' = Called("execute_api_request", resp, ExecuteApiRequest(client, resp))
    /\ UNCHANGED <<working_key, environ, key_state, self, client, pc, ctor, last_success>>

CallGetVideoMetadata ==
    /\ UNCHANGED nonKeyVars
    /\ CanCall
    /\ \E resp \in ResponsesUnder(client.youtube) :
           call' = Called("get_video_metadata", resp, GetVideoMetadata(client, resp))
    /\ UNCHANGED <<working_key, environ, key_state, self, client, pc, ctor, last_success>>

CallGetChannelVideos ==
    /\ UNCHANGED nonKeyVars
    /\ CanCall
    /\ \E resp \in ResponsesUnder(client.youtube) :
           call' = Called("get_channel_videos", resp, GetChannelVideos(client, resp))
    /\ UNCHANGED <<working_key, environ, key_state, self, client, pc, ctor, last_success>>

CallGetChannelId ==
    /\ UNCHANGED nonKeyVars
    /\ CanCall
    /\ \E resp \in ResponsesUnder(client.youtube) :
           call' = Called("get_channel_id", resp, GetChannelId(client, resp))
    /\ UNCHANGED <<working_key, environ, key_state, self, client, pc, ctor, last_success>>

\* The process under which requests are explored: three distinct keys in the
\* environment, clients constructed without an api_key argument.
RequestEnviron == <<"k1", "k2", "k3">>

InitRequest ==
    /\ environ = RequestEnviron
    /\ key_state \in [Keys -> KeyStates]
    /\ FreshProcess
    /\ IdleTranscript
    /\ IdleCache
    /\ IdleIds
    /\ IdleAnalysis

NextRequest ==
    \/ Construct(None)
    \/ TryPrimary
    \/ TrySecondary
    \/ TryTertiary
    \/ \E k \in Keys : ExhaustKey(k)
    \/ CallExecuteApiRequest
    \/ CallGetVideoMetadata
    \/ CallGetChannelVideos
    \/ CallGetChannelId

SpecRequest == InitRequest /\ [][NextRequest]_vars

-----------------------------------------------------------------------------
(* Video.get_transcript: the body, and the tenacity retry around it.        *)

DEFAULT_MAX_RETRIES == 3

Langs == {"en", "zh-Hans", "zh", "fr"}

\* The list get_transcript hands to find_transcript.
FallbackLanguages == <<"en", "zh-Hans", "zh">>

\* Transcript texts: empty, all capitals, mixed case.
RawTexts == {"", "ALL CAPS. TEXT", "Mixed text"}

\* What the provider does on one attempt: answer, raise TranscriptsDisabled,
\* or raise something else (a network error in list_transcripts or fetch).
Behaviours == {"ok", "disabled", "error"}

\* Python's None inside the (None, None) pair.
NonePair == <<None, None>>

\* transcript_list.find_transcript(codes): the first code of `codes` for which
\* the video has a transcript, None standing for NoTranscriptFound.
FindTranscript(available, codes) ==
    LET hits == {i \in 1..Len(codes) : codes[i] \in available}
    IN  IF hits = {} THEN None
        ELSE codes[CHOOSE i \in hits : \A j \in hits : i <= j]

\* _transform_transcript_for_readability
TransformTranscriptForReadability(transcript, language) ==
    IF transcript = "" \/ language # "en" THEN transcript
    ELSE IF transcript = "ALL CAPS. TEXT" THEN "All caps. Text"
    ELSE transcript

\* The transcript_language property.
TranscriptLanguage(v) ==
    IF v.transcript_language = "en" THEN "en" ELSE v.transcript_language

\* The body of get_transcript without the cache check of lines 93-95.
GetTranscriptBody_NoCache(v, prov, b) ==
    LET failed == [video |-> [v EXCEPT !.transcript = NonePair,
                                       !.transcript_fetched = FALSE],
                   outcome |-> "return", value |-> NonePair, contacted |-> TRUE]
        code == FindTranscript(prov.available, FallbackLanguages)
    IN  IF b # "ok" \/ code = None THEN failed
        ELSE LET t == <<TransformTranscriptForReadability(prov.raw, code), code>>
             IN  [video |-> [v EXCEPT !.transcript = t, !.transcript_fetched = TRUE],
                  outcome |-> "return", value |-> t, contacted |-> TRUE]

\* One execution of the body of get_transcript on video v, the provider
\* behaving as b: the video afterwards, "return" or "raise", the value, and
\* whether the provider was contacted.
GetTranscriptBody(v, prov, b) ==
    IF v.transcript # <<>> /\ v.transcript_fetched
    THEN [video |-> v, outcome |-> "return", value |-> v.transcript, contacted |-> FALSE]
    ELSE LET failed == [video |-> [v EXCEPT !.transcript = NonePair,
                                            !.transcript_fetched = FALSE],
                        outcome |-> "return", value |-> NonePair, contacted |-> TRUE]
             code == FindTranscript(prov.available, FallbackLanguages)
         IN  IF b = "disabled" THEN failed                \* except (TranscriptsDisabled, NoTranscriptFound)
             ELSE IF b = "error" THEN failed              \* except Exception
             ELSE IF code = None THEN failed              \* NoTranscriptFound
             ELSE LET t == <<TransformTranscriptForReadability(prov.raw, code), code>>
                  IN  [video |-> [v EXCEPT !.transcript = t, !.transcript_fetched = TRUE],
                       outcome |-> "return", value |-> t, contacted |-> TRUE]

\* The @retry decorator: call the body; when it raises an Exception, call it
\* again unless `attempt` attempts were made, and then raise RetryError.
RECURSIVE RetryCall(_, _, _, _, _)
RetryCall(v, prov, behaviours, attempt, contacts) ==
    LET r == GetTranscriptBody(v, prov, behaviours[attempt])
        c == contacts + (IF r.contacted THEN 1 ELSE 0)
    IN  IF r.outcome = "return"
        THEN [video |-> r.video, outcome |-> "return", value |-> r.value,
              attempts |-> attempt, contacts |-> c]
        ELSE IF attempt >= DEFAULT_MAX_RETRIES
        THEN [video |-> r.video, outcome |-> "raise", value |-> <<"RetryError">>,
              attempts |-> attempt, contacts |-> c]
        ELSE RetryCall(r.video, prov, behaviours, attempt + 1, c)

\* video.get_transcript()
GetTranscript ==
    /\ \E behaviours \in [1..DEFAULT_MAX_RETRIES -> Behaviours] :
          LET r == RetryCall(video, provider, behaviours, 1, 0)
          IN  /\ video' = r.video
              /\ tcall' = [made |-> TRUE,
                           cached |-> (video.transcript # <<>> /\ video.transcript_fetched),
                           language |-> TranscriptLanguage(video),
                           behaviours |-> behaviours,
                           attempts |-> r.attempts, contacts |-> r.contacts,
                           outcome |-> r.outcome, value |-> r.value]
    /\ UNCHANGED provider
    /\ UNCHANGED nonTranscriptVars

\* video.transcript_language = value
SetTranscriptLanguage(value) ==
    /\ value # TranscriptLanguage(video)
    /\ video' = [video EXCEPT !.transcript_language = value]
    /\ UNCHANGED <<provider, tcall>>
    /\ UNCHANGED nonTranscriptVars

\* Video(video_id, transcript_language) of a video with any set of
\* transcripts.
InitTranscriptVars ==
    /\ \E lang \in Langs : video = [NoVideo EXCEPT !.transcript_language = lang]
    /\ provider \in [available : SUBSET Langs, raw : RawTexts]
    /\ tcall = NoTCall

InitTranscript ==
    /\ InitTranscriptVars
    /\ IdleKey
    /\ IdleCache
    /\ IdleIds
    /\ IdleAnalysis

NextTranscript ==
    \/ GetTranscript
    \/ \E value \in Langs : SetTranscriptLanguage(value)

SpecTranscript == InitTranscript /\ [][NextTranscript]_vars

-----------------------------------------------------------------------------
(* The channel client's cache of video clients: create_or_get_video_client  *)
(* and add_processor.                                                       *)

\* objects allocated while exploring one channel client
MaxObjects == 3

ProcessorNames == {"claude_35_sonnet", "gpt_4o"}

\* How the construction of a video client can go: YouTubeVideoClient(...)
\* raises (no API key with quota, metadata not fetched), or one of the
\* client.add_processor calls raises, or neither.
ConstructionOutcomes == {"ok", "init_raises", "processor_raises"}

Cached(cache, video_id) == \E i \in 1..Len(cache) : cache[i].id = video_id
Lookup(cache, video_id) == cache[CHOOSE i \in 1..Len(cache) : cache[i].id = video_id]

\* create_or_get_video_client that stores the client before configuring it.
CreateOrGetVideoClient_CacheFirst(cache, procs, video_id, env, obj) ==
    IF ~Cached(cache, video_id)
    THEN IF env = "init_raises"
         THEN [cache |-> cache, outcome |-> "raise", returned |-> 0, built |-> 0]
         ELSE IF env = "processor_raises" /\ procs # {}
         THEN [cache |-> Append(cache, [id |-> video_id, obj |-> obj, processors |-> {}]),
               outcome |-> "raise", returned |-> 0, built |-> 1]
         ELSE [cache |-> Append(cache, [id |-> video_id, obj |-> obj, processors |-> procs]),
               outcome |-> "return", returned |-> obj, built |-> 1]
    ELSE [cache |-> cache, outcome |-> "return",
          returned |-> Lookup(cache, video_id).obj, built |-> 0]

\* create_or_get_video_client(video_id) on the cache `cache` of a channel with
\* processors `procs`, `obj` being the identity of the client it would
\* construct: the cache afterwards, "return" or "raise", the object returned
\* and the number of YouTubeVideoClient constructors that completed.
CreateOrGetVideoClient(cache, procs, video_id, env, obj) ==
    IF ~Cached(cache, video_id)
    THEN IF env = "init_raises"
         THEN [cache |-> cache, outcome |-> "raise", returned |-> 0, built |-> 0]
         ELSE IF env = "processor_raises" /\ procs # {}
         THEN [cache |-> cache, outcome |-> "raise", returned |-> 0, built |-> 1]
         ELSE [cache |-> Append(cache, [id |-> video_id, obj |-> obj, processors |-> procs]),
               outcome |-> "return", returned |-> obj, built |-> 1]
    ELSE [cache |-> cache, outcome |-> "return",
          returned |-> Lookup(cache, video_id).obj, built |-> 0]

\* The (video id, object) pairs of a cache.
ObjMap(cache) == {<<cache[i].id, cache[i].obj>> : i \in 1..Len(cache)}

CallCreateOrGetVideoClient(video_id, env) ==
    /\ Cached(video_clients, video_id) \/ next_obj <= MaxObjects
    /\ env = "processor_raises" => processors # {}
    /\ LET r == CreateOrGetVideoClient(video_clients, processors, video_id, env, next_obj)
       IN  /\ video_clients' = r.cache
           /\ next_obj' = IF Cached(video_clients, video_id) THEN next_obj ELSE next_obj + 1
           /\ cget' = [made |-> TRUE, video_id |-> video_id,
                       hit |-> Cached(video_clients, video_id),
                       outcome |-> r.outcome, returned |-> r.returned,
                       built |-> r.built, before |-> ObjMap(video_clients)]
           /\ handed_out' = IF r.outcome = "return"
                            THEN [handed_out EXCEPT ![video_id] = @ \cup {r.returned}]
                            ELSE handed_out
           /\ raised_for' = IF r.outcome = "raise" THEN raised_for \cup {video_id}
                            ELSE raised_for
    /\ UNCHANGED processors
    /\ UNCHANGED nonCacheVars

\* add_processor(name, config) of the channel client: record the processor,
\* then add it to the cached video clients in insertion order; fail_at > 0 is
\* the position of the client whose add_processor raises.
AddProcessor(name, fail_at) ==
    /\ fail_at \in 0..Len(video_clients)
    /\ processors' = processors \cup {name}
    /\ video_clients' =
          [i \in 1..Len(video_clients) |->
              IF fail_at = 0 \/ i < fail_at
              THEN [video_clients[i] EXCEPT !.processors = @ \cup {name}]
              ELSE video_clients[i]]
    /\ UNCHANGED <<next_obj, cget, handed_out, raised_for>>
    /\ UNCHANGED nonCacheVars

InitCache ==
    /\ IdleCache
    /\ IdleKey
    /\ IdleTranscript
    /\ IdleIds
    /\ IdleAnalysis

NextCache ==
    \/ \E video_id \in VideoIds, env \in ConstructionOutcomes :
          CallCreateOrGetVideoClient(video_id, env)
    \/ \E name \in ProcessorNames, fail_at \in 0..MaxObjects : AddProcessor(name, fail_at)

SpecCache == InitCache /\ [][NextCache]_vars

-----------------------------------------------------------------------------
(* update_video_ids: the paged search.                                      *)

\* pages one update_video_ids call is served
MaxPages == 3
\* update_video_ids calls explored on one channel client
MaxUpdates == 2
\* items on one page of results (the code asks for up to 50)
MaxItems == 2

PageTokens == {"t1", "t2"}

Range(seq) == {seq[i] : i \in 1..Len(seq)}
SeqsUpTo(S, n) == UNION {[1..m -> S] : m \in 0..n}

\* A response to search().list: its items and its nextPageToken (None: absent).
Pages == [items : SeqsUpTo(VideoIds, MaxItems), next : PageTokens \cup {None}]

\* The filter arguments of update_video_ids; None: not given.
FilterValues == {None, "2024-01-01T00:00:00Z"}
QueryValues == {None, "earnings"}

\* search_params as built from the arguments.
SearchParams(published_after, published_before, query) ==
    (IF published_after # None THEN {<<"publishedAfter", published_after>>} ELSE {})
    \cup (IF published_before # None THEN {<<"publishedBefore", published_before>>} ELSE {})
    \cup (IF query # None THEN {<<"q", query>>} ELSE {})

\* History: the items of a page, in order and each once, that are neither
\* in the list as it was before the call nor among those brought already.
Unseen(items, before, brought) ==
    LET first == {i \in 1..Len(items) : \A j \in 1..(i-1) : items[j] # items[i]}
        keep == {i \in first : items[i] \notin Range(before) \cup Range(brought)}
        Nth(k) == CHOOSE i \in keep : Cardinality({j \in keep : j < i}) = k - 1
    IN  [k \in 1..Cardinality(keep) |-> items[Nth(k)]]

\* The loop over a page's items that appends without the membership test.
ProcessItems_NoCheck(ids, new, items) ==
    [video_ids |-> ids \o items, new_video_ids |-> new \o items]

\* The loop over a page's items: an id not in video_ids is appended to
\* new_video_ids and to video_ids.
RECURSIVE ProcessItems(_, _, _)
ProcessItems(ids, new, items) ==
    IF items = <<>> THEN [video_ids |-> ids, new_video_ids |-> new]
    ELSE IF Head(items) \notin Range(ids)
    THEN ProcessItems(Append(ids, Head(items)), Append(new, Head(items)), Tail(items))
    ELSE ProcessItems(ids, new, Tail(items))

\* The page token kept for the next request, which forgets the response's.
NextPageToken_Stuck(u, page) == IF page.next = None THEN None ELSE "t1"

\* page_token = response.get('nextPageToken')
NextPageToken(u, page) == page.next

\* update_video_ids up to its first request.
UpdateVideoIds(published_after, published_before, query) ==
    /\ ~upd.running
    /\ upd.n < MaxUpdates
    /\ upd' = [n |-> upd.n + 1, running |-> TRUE,
               search_params |-> SearchParams(published_after, published_before, query),
               page_token |-> None, new_video_ids |-> <<>>, before |-> video_ids,
               pages |-> 0, last_next |-> None, brought |-> <<>>,
               failed |-> FALSE, returned |-> <<>>]
    /\ UNCHANGED <<video_ids, last_update>>
    /\ UNCHANGED nonIdsVars

\* One turn of the loop whose request succeeds: the page is processed, and
\* the call returns when the page carries no nextPageToken.  The last page
\* the server has carries none.
FetchPage(page) ==
    /\ upd.running
    /\ upd.pages + 1 >= MaxPages => page.next = None
    /\ LET r == ProcessItems(video_ids, upd.new_video_ids, page.items)
           token == NextPageToken(upd, page)
       IN  /\ video_ids' = r.video_ids
           /\ upd' = [upd EXCEPT !.new_video_ids = r.new_video_ids,
                                 !.page_token = token,
                                 !.pages = @ + 1,
                                 !.last_next = page.next,
                                 !.brought = @ \o Unseen(page.items, upd.before, @),
                                 !.running = (token # None),
                                 !.returned = IF token = None THEN r.new_video_ids ELSE <<>>]
           /\ last_update' = IF token = None THEN upd.n ELSE last_update
    /\ UNCHANGED nonIdsVars

\* A failing request whose exception leaves update_video_ids: nothing is
\* returned and last_update is not set.
FetchPageFails_Raises ==
    /\ upd.running
    /\ upd' = [upd EXCEPT !.failed = TRUE, !.running = FALSE]
    /\ UNCHANGED <<video_ids, last_update>>
    /\ UNCHANGED nonIdsVars

\* One turn of the loop whose request raises (quota exceeded, a network
\* error): the exception is logged and the loop left.
FetchPageFails ==
    /\ upd.running
    /\ upd' = [upd EXCEPT !.failed = TRUE,
                          !.running = FALSE,
                          !.returned = upd.new_video_ids]
    /\ last_update' = upd.n
    /\ UNCHANGED video_ids
    /\ UNCHANGED nonIdsVars

\* A channel client whose video_ids are empty, or were restored by
\* update_from_dict from a saved list.
SavedLists == {<<>>, <<"a">>, <<"b", "a">>, <<"a", "a">>}

InitIds ==
    /\ video_ids \in SavedLists
    /\ last_update = 0
    /\ upd = NoUpd
    /\ IdleKey
    /\ IdleTranscript
    /\ IdleCache
    /\ IdleAnalysis

NextIds ==
    \/ \E published_after \in FilterValues, published_before \in FilterValues,
          query \in QueryValues :
          UpdateVideoIds(published_after, published_before, query)
    \/ \E page \in Pages : FetchPage(page)
    \/ FetchPageFails

SpecIds == InitIds /\ [][NextIds]_vars

-----------------------------------------------------------------------------
(* Claims about the construction of YouTubeAPIClient (SpecKey).             *)

\* The keys a construction is given, in the order primary, secondary,
\* tertiary: api_key (or YOUTUBE_API_KEY), YOUTUBE_API_KEY_2, YOUTUBE_API_KEY_3.
ConfiguredSeq ==
    <<IF ctor.api_key # None THEN ctor.api_key ELSE environ[1], environ[2], environ[3]>>
ConfiguredKeys == {ConfiguredSeq[i] : i \in 1..3} \ {None}
FirstPos(k) ==
    CHOOSE i \in 1..3 : ConfiguredSeq[i] = k /\ \A j \in 1..(i-1) : ConfiguredSeq[j] # k
IsQuotaFailure(r) == r.status = 403 /\ r.text = "quota"
Finished == pc = "idle" /\ ctor.result \notin {"none", "running"}
Unpinned == ctor.n > 0 /\ ctor.working_at_start = None

\* The probes of a construction follow the order primary, secondary,
\* tertiary, no key twice.
ProbesInOrder ==
    /\ \A i \in 1..Len(ctor.probes) : ctor.probes[i].key \in ConfiguredKeys
    /\ \A i, j \in 1..Len(ctor.probes) :
           i < j => FirstPos(ctor.probes[i].key) < FirstPos(ctor.probes[j].key)

\* A key is probed only after every configured key before it failed its probe
\* with a 403 quota error.
ProbedAfterQuotaFailures ==
    \A i \in 1..Len(ctor.probes) :
        \A p \in 1..(FirstPos(ctor.probes[i].key) - 1) :
            ConfiguredSeq[p] # None =>
                \E j \in 1..(i-1) : /\ ctor.probes[j].key = ConfiguredSeq[p]
                                    /\ IsQuotaFailure(ctor.probes[j].resp)

\* The construction stops at the first probe that succeeds.
StopsAtFirstSuccess ==
    \A i \in 1..Len(ctor.probes) :
        ~IsHttpError(ctor.probes[i].resp) =>
            /\ i = Len(ctor.probes)
            /\ ctor.result = "ok"
            /\ pc = "idle"
            /\ client.current_key = ctor.probes[i].key

AllOutOfQuota == \A k \in ConfiguredKeys : ctor.key_state[k] = "quota"

\* C1 as stated: with no working key pinned the configured keys are probed
\* in the order primary, secondary, tertiary, each after the earlier ones
\* failed with a quota error, none twice, stopping at the first success, and
\* YouTubeQuotaExceededError is raised exactly when every configured key is
\* out of quota.
C1_Original ==
    Unpinned =>
        /\ ProbesInOrder
        /\ ProbedAfterQuotaFailures
        /\ StopsAtFirstSuccess
        /\ Finished =>
              (ctor.result = "YouTubeQuotaExceededError"
                  <=> (ConfiguredKeys # {} /\ AllOutOfQuota))

\* C1 as amended: the same, provided a primary key is configured; without a
\* primary key the construction raises ValueError and probes nothing, whatever
\* the secondary and tertiary keys are.
C1_ProbeOrder ==
    Unpinned =>
        /\ ProbesInOrder
        /\ ProbedAfterQuotaFailures
        /\ StopsAtFirstSuccess
        /\ (Finished /\ ConfiguredSeq[1] # None) =>
              (ctor.result = "YouTubeQuotaExceededError" <=> AllOutOfQuota)
        /\ (Finished /\ ConfiguredSeq[1] = None) =>
              (ctor.result = "ValueError" /\ ctor.probes = <<>>)

\* a construction that reached its third key, which succeeded
C1_Witness ==
    /\ Unpinned /\ Finished
    /\ Len(ctor.probes) = 3
    /\ ctor.result = "ok"

\* C2: after a successful probe the class-level working key is the key that
\* succeeded, and a construction that starts with a working key pinned takes
\* it as its current key and probes nothing, whatever api_key and environment
\* it is given.
C2_WorkingKeyPinned ==
    /\ last_success # None => working_key = last_success
    /\ \A i \in 1..Len(ctor.probes) :
           ~IsHttpError(ctor.probes[i].resp) => working_key = ctor.probes[i].key
    /\ ctor.working_at_start # None =>
           /\ ctor.probes = <<>>
           /\ ctor.result = "ok"
           /\ pc = "idle"
           /\ client.current_key = ctor.working_at_start
           /\ client.youtube = ctor.working_at_start
           /\ working_key = ctor.working_at_start

\* a second construction, given another key as api_key, that took the pinned key
C2_Witness ==
    /\ ctor.n = 2
    /\ ctor.working_at_start # None
    /\ ctor.api_key \in Keys \ {ctor.working_at_start}
    /\ client.current_key = ctor.working_at_start

-----------------------------------------------------------------------------
(* Claims about requests (SpecRequest).                                     *)

EnvironKeys == {environ[i] : i \in 1..3} \ {None}
IsQuotaExceeded(r) == r.status = 403 /\ r.reason = "quotaExceeded"

\* C3: execute_api_request rotates keys: when the request fails with quota
\* exceeded under the current key and another configured key still has
\* quota, the request is sent again under that key and the failure is not
\* raised.
C3_RotatesOnQuota ==
    ( /\ call.op = "execute_api_request"
      /\ IsQuotaExceeded(call.resp)
      /\ \E k \in EnvironKeys \ {call.key} : key_state[k] = "ok" )
    => /\ call.requests >= 2
       /\ key_state[call.keys_used[call.requests]] = "ok"
       /\ call.outcome = "return"

\* The exception the claim names for each HttpError.
ClaimedKind(r) ==
    CASE r.status = 403 /\ r.reason = "quotaExceeded" -> "YouTubeQuotaExceededError"
      [] r.status = 403 /\ r.reason = "rateLimitExceeded" -> "YouTubeRateLimitError"
      [] r.status = 404 -> "YouTubeVideoNotFoundError"
      [] r.status = 401 -> "ValueError"
      [] r.status = 400 /\ r.text = "private" -> "YouTubePrivateVideoError"
      [] r.status = 400 /\ r.text # "private" -> "ValueError"
      [] OTHER -> "HttpError"

C7_Original ==
    call.op = "get_channel_id" =>
        /\ IsQuotaExceeded(call.resp) =>
              (call.outcome = "raise" /\ call.exc.kind = "YouTubeQuotaExceededError")
        /\ call.resp.status = 401 =>
              (call.outcome = "raise" /\ call.exc.kind # "ValueError")

\* C7 as amended: get_channel_id raises exactly when the request fails or
\* the response holds no channel, and always ValueError; the kind of the
\* underlying failure survives only in the message, which is "Error fetching
\* channel ID: " followed by the message of the quota, authentication or
\* no-channel error.
C7_AllValueError ==
    call.op = "get_channel_id" =>
        /\ call.outcome = "raise" <=> (IsHttpError(call.resp) \/ call.resp.items = 0)
        /\ call.outcome = "raise" =>
              /\ call.exc.kind = "ValueError"
              /\ Len(call.exc.msg) = 2
              /\ call.exc.msg[1] = "Error fetching channel ID: "
        /\ IsQuotaExceeded(call.resp) =>
              call.exc.msg[2] = "YouTube API quota exceeded"
        /\ call.resp.status = 401 =>
              call.exc.msg[2] = "Invalid API key or authentication required"
        /\ (~IsHttpError(call.resp) /\ call.resp.items = 0) =>
              call.exc.msg[2] = "No channel found for @"

\* get_channel_id met quota exceeded and raised ValueError
C7_Witness ==
    /\ call.op = "get_channel_id"
    /\ IsQuotaExceeded(call.resp)
    /\ call.outcome = "raise"
    /\ call.exc.kind = "ValueError"

-----------------------------------------------------------------------------
(* Claims about Video.get_transcript (SpecTranscript).                      *)

Fresh == tcall.made /\ ~tcall.cached

\* C4: get_transcript ends in one of three ways: (text, language code) on
\* success; (None, None) after a single attempt when transcripts are disabled
\* or none is found; and any other exception of the provider is re-raised, so
\* that the call is attempted again, up to DEFAULT_MAX_RETRIES attempts, after
\* which the failure reaches the caller.
C4_ThreeOutcomes ==
    Fresh =>
        LET b == tcall.behaviours[1]
            found == FindTranscript(provider.available, FallbackLanguages)
        IN  /\ (b = "ok" /\ found # None) =>
                  (tcall.outcome = "return" /\ tcall.value # NonePair /\ tcall.attempts = 1)
            /\ (b = "disabled" \/ (b = "ok" /\ found = None)) =>
                  (tcall.outcome = "return" /\ tcall.value = NonePair /\ tcall.attempts = 1)
            /\ b = "error" => tcall.attempts > 1
            /\ (\A i \in 1..DEFAULT_MAX_RETRIES : tcall.behaviours[i] = "error") =>
                  (tcall.attempts = DEFAULT_MAX_RETRIES /\ tcall.outcome = "raise")

\* C5: the language code returned is the preferred language of the Video
\* whenever the video has a transcript in it, and otherwise the first
\* language of en, zh-Hans, zh in which it has one.
C5_PreferredLanguageFirst ==
    (Fresh /\ tcall.behaviours[1] = "ok") =>
        IF tcall.language \in provider.available
        THEN tcall.outcome = "return" /\ tcall.value[2] = tcall.language
        ELSE tcall.outcome = "return"
             /\ tcall.value[2] = FindTranscript(provider.available, FallbackLanguages)

-----------------------------------------------------------------------------
(* Claims about the cache of video clients (SpecCache).                     *)

\* C8: at most one video client per video id: a first request for an id
\* constructs and caches the client, a later one returns the identical
\* cached object and constructs nothing, and a request whose construction
\* raises leaves the id uncached.
C8_OneClientPerId ==
    /\ \A v \in VideoIds : Cardinality(handed_out[v]) <= 1
    /\ \A i, j \in 1..Len(video_clients) :
           i # j => /\ video_clients[i].id # video_clients[j].id
                    /\ video_clients[i].obj # video_clients[j].obj
    /\ cget.made =>
          /\ cget.hit =>
                /\ cget.outcome = "return"
                /\ cget.built = 0
                /\ <<cget.video_id, cget.returned>> \in cget.before
                /\ ObjMap(video_clients) = cget.before
          /\ (~cget.hit /\ cget.outcome = "return") =>
                /\ cget.built = 1
                /\ \A pair \in cget.before : pair[2] # cget.returned
                /\ ObjMap(video_clients) = cget.before \cup {<<cget.video_id, cget.returned>>}
          /\ cget.outcome = "raise" =>
                /\ ~cget.hit
                /\ ~Cached(video_clients, cget.video_id)
                /\ ObjMap(video_clients) = cget.before

\* an id whose construction raised earlier, constructed and cached by a
\* later request
C8_Witness ==
    /\ cget.made /\ ~cget.hit /\ cget.outcome = "return"
    /\ cget.video_id \in raised_for
    /\ processors # {}

-----------------------------------------------------------------------------
(* Claims about update_video_ids (SpecIds).                                 *)

NoDuplicates(seq) == \A i, j \in 1..Len(seq) : i # j => seq[i] # seq[j]
IsPrefix(p, seq) == Len(p) <= Len(seq) /\ \A i \in 1..Len(p) : p[i] = seq[i]

\* C9: the first request passes no page token and each later one the
\* nextPageToken of the response before it; a call none of whose requests
\* failed ends at the response that carries no nextPageToken; the ids
\* returned are the ids the pages brought that video_ids did not hold before
\* the call, in the order received and without repeats, and video_ids is the
\* list before the call followed by them.
C9_PagedSearch ==
    upd.n > 0 =>
        /\ (upd.running /\ upd.pages = 0) => upd.page_token = None
        /\ (upd.running /\ upd.pages > 0) =>
              (upd.page_token = upd.last_next /\ upd.last_next # None)
        /\ (~upd.running /\ ~upd.failed) => (upd.pages >= 1 /\ upd.last_next = None)
        /\ (IF upd.running THEN upd.new_video_ids ELSE upd.returned) = upd.brought
        /\ NoDuplicates(upd.brought)
        /\ video_ids = upd.before \o upd.brought

\* a call that ended after several pages and returned some of their ids
C9_Witness ==
    /\ upd.n > 0 /\ ~upd.running /\ ~upd.failed
    /\ upd.pages >= 2
    /\ Len(upd.returned) >= 2
    /\ upd.before # <<>>

\* C10: over any sequence of update_video_ids calls, failing ones included,
\* the list before a call is a prefix of the list during and after it, and a
\* list without duplicates before the call has none after it.
C10_VideoIdsOnlyGrow ==
    upd.n > 0 =>
        /\ IsPrefix(upd.before, video_ids)
        /\ NoDuplicates(upd.before) => NoDuplicates(video_ids)

\* a second call that failed after a page had added ids
C10_Witness ==
    /\ upd.n = 2 /\ ~upd.running /\ upd.failed
    /\ upd.pages >= 1
    /\ upd.before # <<>>
    /\ Len(video_ids) > Len(upd.before)

-----------------------------------------------------------------------------
(* LLMProcessor: process_text, init_chat_with_context, chat, reset_chat.    *)

\* exchanges a conversation buffer holds at most in the model
MaxExchanges == 2

\* A prompt template is a sequence of pieces: literal text, the field
\* {text}, a field of another name (as in a template holding JSON braces),
\* and the escaped brace {{.
Pieces == {"lit", "{text}", "{other}", "{{"}
Templates == {<<"lit", "{text}">>, <<"lit", "{other}", "{text}">>,
              <<"{{", "{text}">>, <<"lit">>}
\* The text given to process_text; one of them looks like a field.
InputTexts == {"words", "{other}"}
\* Role.system_prompt is Optional[str]; role itself is Optional[Role].
SystemPrompts == {None, "", "You are"}
\* given is FALSE for role=None.
NoRole == [given |-> FALSE, name |-> None, system_prompt |-> None]
Roles == {NoRole} \cup {[given |-> TRUE, name |-> "role", system_prompt |-> sp] :
                           sp \in SystemPrompts}
Tasks == {[name |-> "task", prompt_template |-> t] : t \in Templates}
Contexts == {"ctx1", "ctx2"}
Questions == {"q1", "q2"}
Answers == {"answer", ""}
\* What self.client.invoke does: it returns a message or raises.
ModelBehaviours == {[kind |-> "ok", content |-> a] : a \in Answers}
                       \cup {[kind |-> "raises", content |-> ""]}

Message(type, content) == [type |-> type, content |-> content]

\* Python truthiness of an Optional[str] / Optional[Role].
Truthy(x) == x # None /\ x # ""

\* str.format(text=text) on a template: a field of another name raises
\* KeyError, {text} is replaced by the text as it is, {{ becomes {.
RECURSIVE Format(_, _)
Format(template, text) ==
    IF template = <<>> THEN [ok |-> TRUE, value |-> <<>>]
    ELSE LET piece == Head(template)
             rest == Format(Tail(template), text)
         IN IF piece = "{other}" THEN [ok |-> FALSE, value |-> <<>>]
            ELSE IF ~rest.ok THEN rest
            ELSE [ok |-> TRUE,
                  value |-> <<(CASE piece = "{text}" -> text
                                 [] piece = "{{" -> "{"
                                 [] OTHER -> piece)>> \o rest.value]

NoLCall == [op |-> "none", text |-> "",
            task |-> [name |-> "task", prompt_template |-> <<>>],
            role |-> NoRole, behaviour |-> [kind |-> "none", content |-> ""],
            invocations |-> <<>>, result |-> None,
            raised |-> None, before |-> <<>>]

\* The outcome of a call: the message lists the model was invoked with, the
\* value returned, the exception that left the call.
Outcome(invocations, result, raised) ==
    [invocations |-> invocations, result |-> result, raised |-> raised]

\* process_text that invokes the model a second time when the first
\* invocation raises.
ProcessText_Retry(text, task, role, behaviour) ==
    LET system == IF role.given /\ Truthy(role.system_prompt)
                  THEN <<Message("system", role.system_prompt)>> ELSE <<>>
        formatted == Format(task.prompt_template, text)
        messages == system \o <<Message("human", formatted.value)>>
    IN IF ~formatted.ok THEN Outcome(<<>>, None, None)
       ELSE IF behaviour.kind = "raises"
            THEN Outcome(<<messages, messages>>, None, None)
       ELSE Outcome(<<messages>>, behaviour.content, None)

\* LLMProcessor.process_text(text, task, role).
ProcessText(text, task, role, behaviour) ==
    LET system == IF role.given /\ Truthy(role.system_prompt)
                  THEN <<Message("system", role.system_prompt)>> ELSE <<>>
        formatted == Format(task.prompt_template, text)
        messages == system \o <<Message("human", formatted.value)>>
    IN IF ~formatted.ok THEN Outcome(<<>>, None, None)        \* except: None
       ELSE IF behaviour.kind = "raises"
            THEN Outcome(<<messages>>, None, None)            \* except: None
       ELSE Outcome(<<messages>>, behaviour.content, None)

\* The messages the chat chain builds: the system message with the context,
\* the history of the memory (a human and an ai message per exchange), the
\* question.
RECURSIVE History(_)
History(memory) ==
    IF memory = <<>> THEN <<>>
    ELSE <<Message("human", Head(memory).input),
           Message("ai", Head(memory).output)>> \o History(Tail(memory))

ChatMessages(p, prompt) ==
    <<Message("system", p.chat_context)>> \o History(p.memory)
        \o <<Message("human", prompt)>>

\* The result of a chat call and the memory it leaves.
ChatOutcome(invocations, result, raised, memory) ==
    [invocations |-> invocations, result |-> result, raised |-> raised,
     memory |-> memory]

\* chat that saves the exchange before it knows the model answered.
Chat_SaveFirst(p, prompt, behaviour) ==
    IF ~p.has_chat_chain
    THEN ChatOutcome(<<>>, None, "ValueError", p.memory)
    ELSE IF behaviour.kind = "raises"
         THEN ChatOutcome(<<ChatMessages(p, prompt)>>, None, None,
                          Append(p.memory, [input |-> prompt, output |-> ""]))
    ELSE ChatOutcome(<<ChatMessages(p, prompt)>>, behaviour.content, None,
                     Append(p.memory, [input |-> prompt,
                                       output |-> behaviour.content]))

\* LLMProcessor.chat(prompt).
Chat(p, prompt, behaviour) ==
    IF ~p.has_chat_chain
    THEN ChatOutcome(<<>>, None, "ValueError", p.memory)
    ELSE IF behaviour.kind = "raises"
         THEN ChatOutcome(<<ChatMessages(p, prompt)>>, None, None, p.memory)
    ELSE ChatOutcome(<<ChatMessages(p, prompt)>>, behaviour.content, None,
                     Append(p.memory, [input |-> prompt,
                                       output |-> behaviour.content]))

NewProcessor == [has_chat_chain |-> FALSE, memory |-> <<>>, chat_context |-> None]

CallProcessText(text, task, role, behaviour) ==
    LET r == ProcessText(text, task, role, behaviour)
    IN /\ lcall' = [op |-> "process_text", text |-> text, task |-> task,
                    role |-> role, behaviour |-> behaviour,
                    invocations |-> r.invocations, result |-> r.result,
                    raised |-> r.raised, before |-> llm.memory]
       /\ UNCHANGED llm
       /\ UNCHANGED nonLlmVars

InitChatWithContext(context) ==
    /\ llm' = [has_chat_chain |-> TRUE, memory |-> <<>>, chat_context |-> context]
    /\ lcall' = [NoLCall EXCEPT !.op = "init_chat_with_context",
                                !.text = context, !.before = llm.memory]
    /\ UNCHANGED nonLlmVars

CallChat(prompt, behaviour) ==
    /\ Len(llm.memory) < MaxExchanges
    /\ LET r == Chat(llm, prompt, behaviour)
       IN /\ llm' = [llm EXCEPT !.memory = r.memory]
          /\ lcall' = [NoLCall EXCEPT !.op = "chat", !.text = prompt,
                                      !.behaviour = behaviour,
                                      !.invocations = r.invocations,
                                      !.result = r.result, !.raised = r.raised,
                                      !.before = llm.memory]
    /\ UNCHANGED nonLlmVars

ResetChat ==
    /\ llm' = [llm EXCEPT !.memory = <<>>]
    /\ lcall' = [NoLCall EXCEPT !.op = "reset_chat", !.before = llm.memory]
    /\ UNCHANGED nonLlmVars

InitLlm ==
    /\ llm = NewProcessor
    /\ lcall = NoLCall
    /\ IdleKey
    /\ IdleTranscript
    /\ IdleCache
    /\ IdleIds
    /\ IdleAnalysisExcept("llm")

NextLlm ==
    \/ \E text \in InputTexts, task \in Tasks, role \in Roles,
          behaviour \in ModelBehaviours :
          CallProcessText(text, task, role, behaviour)
    \/ \E context \in Contexts : InitChatWithContext(context)
    \/ \E prompt \in Questions, behaviour \in ModelBehaviours :
          CallChat(prompt, behaviour)
    \/ ResetChat

SpecLlm == InitLlm /\ [][NextLlm]_vars

-----------------------------------------------------------------------------
(* Claims about LLMProcessor (SpecLlm).                                     *)

\* The message list process_text is to build for a text, a task and a
\* role: the system message iff the role has a non-empty system prompt,
\* then the human message with the formatted template.
ExpectedMessages(c) ==
    (IF c.role.given /\ c.role.system_prompt \notin {None, ""}
     THEN <<Message("system", c.role.system_prompt)>> ELSE <<>>)
    \o <<Message("human", Format(c.task.prompt_template, c.text).value)>>

ProcessTextCalled == lcall.op = "process_text"

\* C11 as stated: exactly one invocation of the model in every call.
C11_Original ==
    ProcessTextCalled =>
        /\ Len(lcall.invocations) = 1
        /\ lcall.invocations[1] = ExpectedMessages(lcall)
        /\ lcall.raised = None
        /\ lcall.result = IF lcall.behaviour.kind = "ok"
                          THEN lcall.behaviour.content ELSE None

\* C11: process_text invokes the model at most once, and exactly once when
\* the template formats; the message list is the optional system message
\* followed by the human message with the text interpolated; it returns the
\* model's text, None when the formatting or the model raised, and no
\* exception leaves it.
C11_ProcessTextOnce ==
    ProcessTextCalled =>
        LET formats == Format(lcall.task.prompt_template, lcall.text).ok
        IN /\ Len(lcall.invocations) = (IF formats THEN 1 ELSE 0)
           /\ formats => lcall.invocations[1] = ExpectedMessages(lcall)
           /\ lcall.raised = None
           /\ lcall.result = IF formats /\ lcall.behaviour.kind = "ok"
                             THEN lcall.behaviour.content ELSE None
           /\ llm.memory = lcall.before

C11_Witness ==
    /\ ProcessTextCalled
    /\ lcall.behaviour.kind = "raises"
    /\ Len(lcall.invocations) = 1
    /\ Len(lcall.invocations[1]) = 2
    /\ lcall.result = None

-----------------------------------------------------------------------------
(* YouTubeVideoClient: add_processor, analyze_video, chat.                  *)

\* AnalysisResults the model lets analysis_results hold
MaxResults == 2

ProcNames == {"claude_35_sonnet", "gpt_4o"}
\* The processor_names given to analyze_video: none, one, two in either
\* order, one name twice.
NameLists == {<<>>, <<"claude_35_sonnet">>, <<"gpt_4o">>,
              <<"claude_35_sonnet", "gpt_4o">>, <<"gpt_4o", "claude_35_sonnet">>,
              <<"gpt_4o", "gpt_4o">>}
\* Video.transcript after _initialize_video: None (written <<>>), the pair
\* (None, None) a failed fetch leaves, or (text, language).
VideoTranscripts == {<<>>, <<None, None>>, <<"words", "en">>}
VcTask == [name |-> "summarize_transcript", prompt_template |-> <<"lit", "{text}">>]
\* The analyses are made under Role.research_assistant().
VcRoles == {[given |-> TRUE, name |-> "research_assistant",
             system_prompt |-> "You are"]}

\* if not self._video.transcript or not self._video.transcript[0]
NoTranscriptAvailable(transcript) ==
    transcript = <<>> \/ ~Truthy(transcript[1])

Unregistered == [registered |-> FALSE, has_chat_chain |-> FALSE,
                 memory |-> <<>>, chat_context |-> None]
Registered == [registered |-> TRUE, has_chat_chain |-> FALSE,
               memory |-> <<>>, chat_context |-> None]

\* missing_processors = [name for name in processor_names
\*                       if name not in self._processors]
RECURSIVE MissingProcessors(_, _)
MissingProcessors(procs, names) ==
    IF names = <<>> THEN <<>>
    ELSE (IF procs[Head(names)].registered THEN <<>> ELSE <<Head(names)>>)
         \o MissingProcessors(procs, Tail(names))

AnalysisResult(content, model, role, task) ==
    [content |-> content, model |-> model,
     role |-> IF role.given THEN role.name ELSE None, task |-> task.name]

AnalyzeOutcome(raised, missing, invoked, analyses, results) ==
    [raised |-> raised, missing |-> missing, invoked |-> invoked,
     analyses |-> analyses, analysis_results |-> results]

\* The loop of analyze_video over processor_names[i..]: invoked is the
\* processors called so far, analyses the results collected so far.
RECURSIVE AnalyzeLoop(_, _, _, _, _, _, _, _)
AnalyzeLoop(c, names, task, role, behaviours, i, invoked, analyses) ==
    IF i > Len(names)
    THEN AnalyzeOutcome(None, <<>>, invoked, analyses,
                        c.analysis_results \o analyses)
    ELSE LET proc_name == names[i]
             analysis == ProcessText(c.transcript[1], task, role,
                                     behaviours[i]).result
         IN IF ~c.processors[proc_name].registered        \* continue
            THEN AnalyzeLoop(c, names, task, role, behaviours, i + 1,
                             invoked, analyses)
            ELSE IF Truthy(analysis)
            THEN AnalyzeLoop(c, names, task, role, behaviours, i + 1,
                             Append(invoked, proc_name),
                             Append(analyses,
                                    AnalysisResult(analysis, proc_name, role, task)))
            ELSE AnalyzeLoop(c, names, task, role, behaviours, i + 1,
                             Append(invoked, proc_name), analyses)

\* analyze_video that gives up at the first processor without an answer.
AnalyzeVideo_StopAtFailure(c, names, task, role, behaviours) ==
    IF MissingProcessors(c.processors, names) # <<>>
    THEN AnalyzeOutcome("ValueError", MissingProcessors(c.processors, names),
                        <<>>, <<>>, c.analysis_results)
    ELSE IF NoTranscriptAvailable(c.transcript)
    THEN AnalyzeOutcome(None, <<>>, <<>>, <<>>, c.analysis_results)
    ELSE LET full == AnalyzeLoop(c, names, task, role, behaviours, 1, <<>>, <<>>)
             ok(i) == Truthy(ProcessText(c.transcript[1], task, role,
                                         behaviours[i]).result)
             bad == {i \in 1..Len(names) : ~ok(i)}
             stop == IF bad = {} THEN Len(names)
                     ELSE CHOOSE i \in bad : \A j \in bad : i <= j
         IN IF bad = {} THEN full
            ELSE AnalyzeLoop(c, SubSeq(names, 1, stop), task, role, behaviours,
                             1, <<>>, <<>>)

\* analyze_video without the check of the names at its start.
AnalyzeVideo_NoCheck(c, names, task, role, behaviours) ==
    IF NoTranscriptAvailable(c.transcript)
    THEN AnalyzeOutcome(None, <<>>, <<>>, <<>>, c.analysis_results)
    ELSE AnalyzeLoop(c, names, task, role, behaviours, 1, <<>>, <<>>)

\* YouTubeVideoClient.analyze_video(processor_names, task, role).
AnalyzeVideo(c, names, task, role, behaviours) ==
    IF MissingProcessors(c.processors, names) # <<>>
    THEN AnalyzeOutcome("ValueError", MissingProcessors(c.processors, names),
                        <<>>, <<>>, c.analysis_results)
    ELSE IF NoTranscriptAvailable(c.transcript)
    THEN AnalyzeOutcome(None, <<>>, <<>>, <<>>, c.analysis_results)
    ELSE AnalyzeLoop(c, names, task, role, behaviours, 1, <<>>, <<>>)

NoVCall == [op |-> "none", names |-> <<>>, role |-> NoRole, behaviours |-> <<>>,
            raised |-> None, missing |-> <<>>, invoked |-> <<>>,
            returned |-> <<>>, result |-> None, before |-> Unused,
            question |-> None, invocations |-> <<>>]

CallAnalyzeVideo(names, role, behaviours) ==
    /\ LET r == AnalyzeVideo(vclient, names, VcTask, role, behaviours)
       IN /\ Len(r.analysis_results) <= MaxResults
          /\ vclient' = [vclient EXCEPT !.analysis_results = r.analysis_results]
          /\ vcall' = [op |-> "analyze_video", names |-> names, role |-> role,
                       behaviours |-> behaviours, raised |-> r.raised,
                       missing |-> r.missing, invoked |-> r.invoked,
                       returned |-> r.analyses, result |-> None,
                       before |-> vclient, question |-> None,
                       invocations |-> <<>>]
    /\ UNCHANGED nonVideoClientVars

\* init_chat_with_context that keeps the memory of a chat already started.
InitChat_KeepMemory(p, context) ==
    [p EXCEPT !.has_chat_chain = TRUE, !.chat_context = context]

\* LLMProcessor.init_chat_with_context(context) on processor p: a new
\* ConversationBufferMemory, a new chain, the context.
InitChat(p, context) ==
    [p EXCEPT !.has_chat_chain = TRUE, !.memory = <<>>, !.chat_context = context]

\* YouTubeVideoClient.chat(processor_name, question): the processor's chat is
\* initialised with the transcript, then asked the question.
VideoClientChat(processor_name, question, behaviour) ==
    LET missing == MissingProcessors(vclient.processors, <<processor_name>>)
        p == vclient.processors[processor_name]
        started == InitChat(p, vclient.transcript[1])
        r == Chat(started, question, behaviour)
        made == [NoVCall EXCEPT !.op = "chat", !.names = <<processor_name>>,
                                !.behaviours = <<behaviour>>, !.before = vclient,
                                !.question = question]
    IN /\ IF missing # <<>>
          THEN /\ vcall' = [made EXCEPT !.raised = "ValueError", !.missing = missing]
               /\ UNCHANGED vclient
          ELSE IF NoTranscriptAvailable(vclient.transcript)
          THEN /\ vcall' = made
               /\ UNCHANGED vclient
          ELSE /\ vcall' = [made EXCEPT !.invoked = IF r.invocations = <<>> THEN <<>>
                                                    ELSE <<processor_name>>,
                                        !.invocations = r.invocations,
                                        !.result = r.result]
               /\ vclient' = [vclient EXCEPT !.processors[processor_name] =
                                 [started EXCEPT !.memory = r.memory]]
       /\ UNCHANGED nonVideoClientVars

\* YouTubeVideoClient.add_processor(name, config).
VideoClientAddProcessor(name) ==
    /\ vclient' = [vclient EXCEPT !.processors[name] = Registered]
    /\ vcall' = [NoVCall EXCEPT !.op = "add_processor", !.names = <<name>>,
                                !.before = vclient]
    /\ UNCHANGED nonVideoClientVars

InitVideoClient ==
    /\ \E t \in VideoTranscripts :
          vclient = [transcript |-> t,
                     processors |-> [n \in ProcNames |-> Unregistered],
                     analysis_results |-> <<>>]
    /\ vcall = NoVCall
    /\ IdleKey
    /\ IdleTranscript
    /\ IdleCache
    /\ IdleIds
    /\ IdleAnalysisExcept("videoClient")

NextVideoClient ==
    \/ \E name \in ProcNames : VideoClientAddProcessor(name)
    \/ \E names \in NameLists, role \in VcRoles :
          \E behaviours \in [1..Len(names) -> ModelBehaviours] :
             CallAnalyzeVideo(names, role, behaviours)
    \/ \E name \in ProcNames, question \in Questions, behaviour \in ModelBehaviours :
          VideoClientChat(name, question, behaviour)

SpecVideoClient == InitVideoClient /\ [][NextVideoClient]_vars

-----------------------------------------------------------------------------
(* Claims about YouTubeVideoClient (SpecVideoClient).                       *)

SeqRange(q) == {q[i] : i \in DOMAIN q}

RegisteredBefore(name) == vcall.before.processors[name].registered

\* The requested names that were not registered, in the order requested.
NotRegistered ==
    SelectSeq(vcall.names, LAMBDA name : ~RegisteredBefore(name))

\* C13: analyze_video and chat raise ValueError naming every requested
\* processor that is not registered, before any model is invoked, and leave
\* analysis_results and every processor's chat state as they were.
C13_MissingProcessors ==
    vcall.op \in {"analyze_video", "chat"} /\ NotRegistered # <<>> =>
        /\ vcall.raised = "ValueError"
        /\ vcall.missing = NotRegistered
        /\ vcall.invoked = <<>>
        /\ vclient.analysis_results = vcall.before.analysis_results
        /\ vclient.processors = vcall.before.processors

C13_Witness ==
    /\ vcall.op = "analyze_video"
    /\ Len(vcall.names) = 2
    /\ Len(NotRegistered) = 1
    /\ vcall.raised = "ValueError"
    /\ vcall.before.analysis_results # <<>>
    /\ \E n \in ProcNames : vcall.before.processors[n].memory # <<>>

\* The positions of the call's names whose processor answered with a
\* non-empty text, in increasing order.
Answered ==
    SelectSeq([i \in 1..Len(vcall.names) |-> i],
              LAMBDA i : /\ vcall.behaviours[i].kind = "ok"
                         /\ vcall.behaviours[i].content # "")

ExpectedResults ==
    [k \in 1..Len(Answered) |->
        [content |-> vcall.behaviours[Answered[k]].content,
         model |-> vcall.names[Answered[k]],
         role |-> IF vcall.role.given THEN vcall.role.name ELSE None,
         task |-> VcTask.name]]

\* C14: with a non-empty transcript and registered names, analyze_video
\* invokes each named processor once in the given order, returns in that
\* order one result per processor that answered with a non-empty text, and
\* analysis_results grows by exactly the results returned; without a
\* transcript it returns the empty list and invokes no processor.
C14_AnalyzeVideo ==
    vcall.op = "analyze_video" /\ NotRegistered = <<>> =>
        /\ vcall.raised = None
        /\ vclient.processors = vcall.before.processors
        /\ vclient.analysis_results = vcall.before.analysis_results \o vcall.returned
        /\ IF vclient.transcript = <<"words", "en">>
           THEN /\ vcall.invoked = vcall.names
                /\ vcall.returned = ExpectedResults
           ELSE /\ vcall.invoked = <<>>
                /\ vcall.returned = <<>>

C14_Witness ==
    /\ vcall.op = "analyze_video"
    /\ Len(vcall.names) = 2
    /\ vcall.behaviours[1].kind = "raises"
    /\ vcall.behaviours[2] = [kind |-> "ok", content |-> "answer"]
    /\ Len(vcall.invoked) = 2
    /\ Len(vcall.returned) = 1
    /\ Len(vclient.analysis_results) = 2

-----------------------------------------------------------------------------
(* YouTubeSummary.run_pipeline.                                             *)

\* self.pipeline_stages, as _setup_pipeline builds it.
PipelineStages == <<"_set_channel", "_load_existing_data", "_fetch_videos",
                    "_add_transcripts", "_generate_summaries", "_save_results",
                    "_send_email">>

\* config['stop_on_error']: True, False, or the key is absent.
StopOnErrorValues == {"True", "False", "absent"}

\* self.config.get('stop_on_error', False)
StopOnError(config) == config = "True"

\* Of a run_pipeline call: the stages started so far, the ones that raised,
\* whether a stage is running, whether the call returned, and whether an
\* exception left it.
NoPRun == [config |-> "absent", made |-> FALSE, started |-> <<>>, raised |-> {},
           in_stage |-> FALSE, returned |-> FALSE, escaped |-> FALSE]

\* What the loop does once a stage is over: it starts the next stage, or the
\* call returns when there is none.
Advance(r) ==
    IF Len(r.started) < Len(PipelineStages)
    THEN [r EXCEPT !.started = Append(r.started, PipelineStages[Len(r.started) + 1]),
                   !.in_stage = TRUE]
    ELSE [r EXCEPT !.in_stage = FALSE, !.returned = TRUE]

\* An except clause that always goes on with the next stage.
OnStageError_NeverStops(r) ==
    Advance([r EXCEPT !.raised = r.raised \cup {r.started[Len(r.started)]}])

\* The except clause of run_pipeline.
OnStageError(r) ==
    LET logged == [r EXCEPT !.raised = r.raised \cup {r.started[Len(r.started)]}]
    IN IF StopOnError(r.config)
       THEN [logged EXCEPT !.in_stage = FALSE, !.returned = TRUE]     \* break
       ELSE Advance(logged)

RunPipeline ==
    /\ ~prun.in_stage
    /\ prun' = Advance([NoPRun EXCEPT !.config = prun.config, !.made = TRUE])
    /\ UNCHANGED nonPipelineVars

StageReturns ==
    /\ prun.in_stage
    /\ prun' = Advance(prun)
    /\ UNCHANGED nonPipelineVars

StageRaises ==
    /\ prun.in_stage
    /\ prun' = OnStageError(prun)
    /\ UNCHANGED nonPipelineVars

InitPipeline ==
    /\ \E config \in StopOnErrorValues : prun = [NoPRun EXCEPT !.config = config]
    /\ IdleKey
    /\ IdleTranscript
    /\ IdleCache
    /\ IdleIds
    /\ IdleAnalysisExcept("pipeline")

NextPipeline ==
    \/ RunPipeline
    \/ StageReturns
    \/ StageRaises

SpecPipeline == InitPipeline /\ [][NextPipeline]_vars

-----------------------------------------------------------------------------
(* Claims about run_pipeline (SpecPipeline).                                *)

LastStarted == prun.started[Len(prun.started)]

\* C15: the stages are started in the fixed order, each at most once; after
\* a stage raised, every later stage is still started when stop_on_error is
\* false or absent and none is when it is true; run_pipeline returns
\* normally in both cases.
C15_PipelineOrder ==
    /\ Len(prun.started) <= Len(PipelineStages)
    /\ prun.started = SubSeq(PipelineStages, 1, Len(prun.started))
    /\ ~prun.escaped
    /\ prun.made => (prun.returned <=> ~prun.in_stage)
    /\ prun.config = "True" =>
          /\ \A stage \in prun.raised : stage = LastStarted /\ prun.returned
          /\ prun.returned => (prun.raised # {} \/ prun.started = PipelineStages)
    /\ prun.config \in {"False", "absent"} =>
          (prun.returned => prun.started = PipelineStages)

C15_Witness ==
    /\ prun.config = "absent"
    /\ prun.returned
    /\ prun.raised = {"_fetch_videos", "_send_email"}
    /\ prun.started = PipelineStages

-----------------------------------------------------------------------------
(* fetch_videos.apply_task and apply_tasks_on_all_transcripts.              *)

\* rows of the table in the model
MaxRows == 2

NA == "NA"                                   \* pd.NA / NaN
NoTranscriptPlaceholder == "No transcript for video"
NoSummary == "No summary"
ContextLengthSummary == "Context length exceeded. Summary not available."

RowTranscripts == {NA, NoTranscriptPlaceholder, "transcript"}
\* The Summary a row can hold when the function is called: none, one kept
\* from an earlier run, or one the function itself writes.
RowSummaries == {NA, "kept", NoSummary, "summary"}

\* What client.chat.completions.create does for a text: it returns a message
\* whose stripped content is a summary or is empty, or it raises an
\* OpenAIError that mentions "maximum context length", or another one.
CompletionBehaviours == {"summary", "empty", "context_length", "api_error"}

\* apply_task(text, client, task) of fetch_videos.py.  The module does not
\* import openai, so when create() raises, evaluating the expression
\* openai.OpenAIError of the except clause raises NameError, and neither
\* branch of the handler is reached.
ApplyTask(behaviour) ==
    CASE behaviour = "summary" -> [raised |-> None, value |-> "summary"]
      [] behaviour = "empty" -> [raised |-> None, value |-> ""]
      [] OTHER -> [raised |-> "NameError", value |-> None]

SummariesOutcome(rows, calls, raised) ==
    [df |-> rows, calls |-> calls, raised |-> raised]

\* The loop of apply_tasks_on_all_transcripts from row i on: calls is the
\* rows the model was called for.
RECURSIVE ApplyTasksLoop(_, _, _, _)
ApplyTasksLoop(rows, behaviours, i, calls) ==
    IF i > Len(rows) THEN SummariesOutcome(rows, calls, None)
    ELSE IF rows[i].Summary # NA                       \* pd.isna(row['Summary'])
    THEN ApplyTasksLoop(rows, behaviours, i + 1, calls)
    ELSE IF rows[i].Transcript = NA \/ rows[i].Transcript = NoTranscriptPlaceholder
    THEN ApplyTasksLoop([rows EXCEPT ![i].Summary = NoSummary], behaviours,
                        i + 1, calls)
    ELSE LET r == ApplyTask(behaviours[i])
         IN IF r.raised # None
            THEN SummariesOutcome(rows, Append(calls, i), r.raised)
            ELSE IF r.value = "" \/ r.value = ContextLengthSummary
            THEN ApplyTasksLoop([rows EXCEPT ![i].Summary = NoSummary],
                                behaviours, i + 1, Append(calls, i))
            ELSE ApplyTasksLoop([rows EXCEPT ![i].Summary = r.value],
                                behaviours, i + 1, Append(calls, i))

\* apply_tasks_on_all_transcripts(df, client, task); a table without the
\* Summary column is one whose rows all hold NA.
ApplyTasksOnAllTranscripts(rows, behaviours) ==
    ApplyTasksLoop(rows, behaviours, 1, <<>>)

NoSCall == [made |-> FALSE, before |-> <<>>, behaviours |-> <<>>,
            calls |-> <<>>, raised |-> None]

CallApplyTasks(behaviours) ==
    LET r == ApplyTasksOnAllTranscripts(df, behaviours)
    IN /\ df' = r.df
       /\ scall' = [made |-> TRUE, before |-> df, behaviours |-> behaviours,
                    calls |-> r.calls, raised |-> r.raised]
       /\ UNCHANGED nonSummariesVars

\* add_transcripts_to_df gave every row a transcript or the placeholder; a
\* table loaded from a file can hold rows without one.  Summaries come from
\* an earlier run.
InitSummaries ==
    /\ \E n \in 1..MaxRows :
          df \in [1..n -> [Transcript : RowTranscripts, Summary : {NA, "kept"}]]
    /\ scall = NoSCall
    /\ IdleKey
    /\ IdleTranscript
    /\ IdleCache
    /\ IdleIds
    /\ IdleAnalysisExcept("summaries")

NextSummaries ==
    \E behaviours \in [1..Len(df) -> CompletionBehaviours] : CallApplyTasks(behaviours)

SpecSummaries == InitSummaries /\ [][NextSummaries]_vars

-----------------------------------------------------------------------------
(* Claims about apply_tasks_on_all_transcripts (SpecSummaries).             *)

\* The rows of the last call that had no Summary and a real transcript.
ToSummarize ==
    {i \in 1..Len(scall.before) :
        /\ scall.before[i].Summary = NA
        /\ scall.before[i].Transcript \notin {NA, NoTranscriptPlaceholder}}

\* C16: on a normal return every row has a Summary; a row without a
\* transcript gets "No summary" without a model call; a row for which the
\* model gives an empty answer or fails with context length exceeded gets
\* "No summary"; a row that had a Summary keeps it and causes no call.
C16_EveryRowSummarised ==
    scall.made =>
        /\ Len(df) = Len(scall.before)
        /\ \A i \in 1..Len(df) :
              /\ scall.before[i].Summary # NA =>
                    /\ df[i].Summary = scall.before[i].Summary
                    /\ \A k \in 1..Len(scall.calls) : scall.calls[k] # i
              /\ scall.before[i].Summary = NA /\ i \notin ToSummarize =>
                    (scall.raised = None => df[i].Summary = NoSummary)
              /\ i \in ToSummarize /\ scall.behaviours[i] \in {"empty", "context_length"}
                    /\ (\A j \in ToSummarize : j < i =>
                           scall.behaviours[j] \in {"summary", "empty", "context_length"})
                    => df[i].Summary = NoSummary
        /\ scall.raised = None => \A i \in 1..Len(df) : df[i].Summary # NA

-----------------------------------------------------------------------------
(* YouTubeSummary._load_existing_data and _fetch_videos, with               *)
(* fetch_videos.fetch_videos.                                               *)

\* The videos of the channel and when each was published.
ChannelVideos == {"a", "b", "c"}
PublishedAt(id) == CASE id = "a" -> 1 [] id = "b" -> 2 [] OTHER -> 3

\* A table is its columns and its rows.  columns is "none" for
\* pd.DataFrame(), "standard" for Video ID, Title, Published At,
\* Duration (Min), URL, and "transcripts" when Transcript and Summary were
\* added.  A row is a video; Published At is a string in a table read from
\* the file and a datetime after pd.to_datetime.
Table(columns, rows) == [columns |-> columns, rows |-> rows]
EmptyDataFrame == Table("none", <<>>)
StandardEmpty == Table("standard", <<>>)
NoneTable == Table("None", <<>>)                     \* self._videos_df = None
VideoRow(id, form) == [id |-> id, published_at |-> PublishedAt(id), form |-> form]

\* df.empty
IsEmpty(t) == t.rows = <<>>

\* pd.to_datetime(df['Published At'])
ToDatetime(t) ==
    Table(t.columns, [i \in 1..Len(t.rows) |-> [t.rows[i] EXCEPT !.form = "datetime"]])

\* to_csv then read_csv: Published At comes back as a string.
ToCsv(t) ==
    Table(t.columns, [i \in 1..Len(t.rows) |-> [t.rows[i] EXCEPT !.form = "str"]])

\* sort_values('Published At', ascending=False).reset_index(drop=True);
\* the videos of the model have distinct dates.
RECURSIVE SortDescending(_)
SortDescending(rows) ==
    IF rows = <<>> THEN <<>>
    ELSE LET m == CHOOSE i \in 1..Len(rows) :
                     \A j \in 1..Len(rows) : rows[j].published_at <= rows[i].published_at
             rest == [k \in 1..(Len(rows) - 1) |-> IF k < m THEN rows[k] ELSE rows[k + 1]]
         IN <<rows[m]>> \o SortDescending(rest)

\* The csv file of the channel: absent, or a table.
NoFile == [exists |-> FALSE, table |-> EmptyDataFrame]
SavedFile(t) == [exists |-> TRUE, table |-> ToCsv(t)]

\* What the YouTube API does during fetch_videos: the search request raises
\* (HTTP 403 quota exceeded), or the requests return the videos of the date
\* range.
FetchEnvs == {[kind |-> "http_error", items |-> {}]}
                 \cup {[kind |-> "ok", items |-> v] : v \in SUBSET ChannelVideos}

\* fetch_videos.fetch_videos(start_date, end_date, channel_id, existing_df):
\* existing_df is converted in place first, so it is returned as well when
\* the function raises.
FetchVideos(existing_df, env) ==
    LET existing == IF ~IsEmpty(existing_df) /\ existing_df.columns # "none"
                    THEN ToDatetime(existing_df) ELSE existing_df
        known == {existing.rows[i].id : i \in 1..Len(existing.rows)}
    IN IF env.kind = "http_error"
       THEN [raised |-> "HttpError", table |-> existing, existing |-> existing]
       ELSE IF env.items # {} /\ existing.columns = "none"
       THEN \* existing_df['Video ID'] on a table without columns
            [raised |-> "KeyError", table |-> existing, existing |-> existing]
       ELSE IF env.items \ known # {}
       THEN \* combined_df.to_csv(csv_file, ...): csv_file is not defined
            [raised |-> "NameError", table |-> existing, existing |-> existing]
       ELSE [raised |-> None, table |-> existing, existing |-> existing]

\* An except clause that starts again from an empty table.
OnFetchError_StartEmpty(existing, loaded) == EmptyDataFrame

\* The except clause of _fetch_videos:
\* existing_df if 'existing_df' in locals() else pd.DataFrame().
OnFetchError(existing, loaded) == IF loaded THEN existing ELSE EmptyDataFrame

NoFCall == [made |-> FALSE, op |-> "none", env |-> [kind |-> "none", items |-> {}],
            fetch_raised |-> None, raised |-> None, before |-> NoFile]

\* YouTubeSummary._load_existing_data.
LoadExistingData ==
    /\ summary' = [summary EXCEPT !.videos_df =
                      IF summary.file.exists THEN ToDatetime(summary.file.table)
                      ELSE EmptyDataFrame]
    /\ fcall' = [NoFCall EXCEPT !.made = TRUE, !.op = "_load_existing_data",
                                !.before = summary.file]
    /\ UNCHANGED nonFetchVars

\* YouTubeSummary._fetch_videos.
FetchVideosStage(env) ==
    LET existing_df == IF summary.file.exists THEN summary.file.table
                       ELSE EmptyDataFrame
        r == FetchVideos(existing_df, env)
        fetched == IF r.raised = None
                   THEN (IF ~IsEmpty(r.table)
                         THEN Table(r.table.columns,
                                    SortDescending(ToDatetime(r.table).rows))
                         ELSE r.table)
                   ELSE OnFetchError(r.existing, TRUE)
        written == r.raised = None /\ ~IsEmpty(r.table)
    IN /\ summary' = [file |-> IF written THEN SavedFile(fetched) ELSE summary.file,
                      videos_df |-> IF IsEmpty(fetched) THEN StandardEmpty ELSE fetched]
       /\ fcall' = [made |-> TRUE, op |-> "_fetch_videos", env |-> env,
                    fetch_raised |-> r.raised, raised |-> None,
                    before |-> summary.file]
       /\ UNCHANGED nonFetchVars

\* The file a run of an earlier day or hour left: none, one with the header
\* only, or one with some of the channel's videos, newest first, with or
\* without the Transcript and Summary columns.
SavedFiles ==
    {NoFile}
    \cup {SavedFile(Table(columns,
                          SortDescending([i \in 1..Len(ids) |-> VideoRow(ids[i], "str")]))) :
             columns \in {"standard", "transcripts"},
             ids \in {<<>>, <<"a">>, <<"b">>, <<"c">>, <<"a", "b">>, <<"a", "c">>,
                      <<"b", "c">>, <<"a", "b", "c">>}}

InitFetch ==
    /\ \E file \in SavedFiles : summary = [file |-> file, videos_df |-> NoneTable]
    /\ fcall = NoFCall
    /\ IdleKey
    /\ IdleTranscript
    /\ IdleCache
    /\ IdleIds
    /\ IdleAnalysisExcept("fetch")

NextFetch ==
    \/ LoadExistingData
    \/ \E env \in FetchEnvs : FetchVideosStage(env)

SpecFetch == InitFetch /\ [][NextFetch]_vars

-----------------------------------------------------------------------------
(* Claims about _fetch_videos (SpecFetch).                                  *)

\* The videos of a table and their dates, in the order of the rows.
Data(t) == [i \in 1..Len(t.rows) |-> <<t.rows[i].id, t.rows[i].published_at>>]

\* C17: when the fetch inside _fetch_videos fails, _fetch_videos does not
\* raise, the file is as it was, and the working table holds the rows saved
\* before, in their order and with their columns, or is the empty table with
\* the standard columns when no row had been saved.
C17_FailedFetchKeepsSaved ==
    fcall.op = "_fetch_videos" /\ fcall.fetch_raised # None =>
        /\ fcall.raised = None
        /\ summary.file = fcall.before
        /\ IF fcall.before.exists /\ fcall.before.table.rows # <<>>
           THEN /\ Data(summary.videos_df) = Data(fcall.before.table)
                /\ summary.videos_df.columns = fcall.before.table.columns
           ELSE summary.videos_df = StandardEmpty

C17_Witness ==
    /\ fcall.op = "_fetch_videos"
    /\ fcall.env.kind = "http_error"
    /\ fcall.fetch_raised = "HttpError"
    /\ Len(fcall.before.table.rows) = 2
    /\ Len(summary.videos_df.rows) = 2

-----------------------------------------------------------------------------
(* Video.to_dict, serialize_video_to_json, create_from_json_file.           *)

\* A datetime: its wall-clock time, its UTC offset and the kind of its
\* tzinfo (a pytz zone after astimezone(self.timezone), a fixed offset after
\* datetime.fromisoformat).  zone "none" stands for published_at = None.
NoDatetime == [wall |-> "", offset |-> "", zone |-> "none"]
Datetimes == {[wall |-> w, offset |-> o, zone |-> "pytz"] :
                 w \in {"2024-01-15T10:00:00", "2024-07-15T10:00:00"},
                 o \in {"-06:00", "-05:00"}}

\* datetime.isoformat(): the wall-clock time followed by the offset; the
\* kind of tzinfo does not show.  "" stands for None.
IsoFormat(dt) == IF dt.zone = "none" THEN "" ELSE dt.wall \o dt.offset

\* datetime.fromisoformat(value.replace('Z', '+00:00')) of a string
\* isoformat() wrote: 19 characters of wall-clock time, then the offset.
FromIsoFormat(str) ==
    [wall |-> SubSeq(str, 1, 19), offset |-> SubSeq(str, 20, Len(str)),
     zone |-> "fixed"]

\* Video.transcript: None, or a pair the code builds as a tuple and json
\* reads back as a list.
NoTranscript == [kind |-> "None", text |-> None, language |-> None]
TranscriptTuple(text, language) ==
    [kind |-> "tuple", text |-> text, language |-> language]
Transcripts == {NoTranscript, TranscriptTuple(None, None),
                TranscriptTuple("text", "en"), TranscriptTuple("wenben", "zh-Hans")}

\* json.dump then json.load of a value: a tuple comes back as a list,
\* strings and None as they are.
JsonRoundTrip(transcript) ==
    IF transcript.kind = "tuple" THEN [transcript EXCEPT !.kind = "list"]
    ELSE transcript

Titles == {"", "Title", "Titre: x/y"}
ChannelNames == {None, "Channel"}

\* Video(video_id): nothing fetched yet.
NewVideo == [video_id |-> "v1", title |-> None, published_at |-> NoDatetime,
             duration_minutes |-> None, channel_id |-> None,
             channel_name |-> None, transcript |-> NoTranscript,
             metadata_fetched |-> FALSE, transcript_fetched |-> FALSE]

\* bool(video.transcript and video.transcript[0])
HasTranscriptText(transcript) ==
    transcript.kind # "None" /\ Truthy(transcript.text)

\* The dictionary to_dict returns.
ToDict(v) ==
    [VideoID |-> v.video_id, Title |-> v.title,
     PublishedAt |-> IsoFormat(v.published_at),
     Duration |-> v.duration_minutes, ChannelID |-> v.channel_id,
     ChannelName |-> v.channel_name, Transcript |-> v.transcript]

\* create_from_json_file that forgets the publication date.
FromJson_NoPublishedAt(data) ==
    [NewVideo EXCEPT !.video_id = data.VideoID, !.title = data.Title,
                     !.duration_minutes = data.Duration,
                     !.channel_id = data.ChannelID,
                     !.channel_name = data.ChannelName,
                     !.transcript = data.Transcript,
                     !.metadata_fetched = TRUE,
                     !.transcript_fetched = HasTranscriptText(data.Transcript)]

\* The Video create_from_json_file builds from the data of the file.
FromJson(data) ==
    [NewVideo EXCEPT !.video_id = data.VideoID, !.title = data.Title,
                     !.duration_minutes = data.Duration,
                     !.channel_id = data.ChannelID,
                     !.channel_name = data.ChannelName,
                     !.transcript = data.Transcript,
                     !.published_at = IF data.PublishedAt # ""
                                      THEN FromIsoFormat(data.PublishedAt)
                                      ELSE NoDatetime,
                     !.metadata_fetched = TRUE,
                     !.transcript_fetched = HasTranscriptText(data.Transcript)]

\* What json.dump writes for the dictionary and json.load reads back.
JsonFile(d) == [d EXCEPT !.Transcript = JsonRoundTrip(d.Transcript)]

NoJsonFile == [VideoID |-> "", Title |-> None, PublishedAt |-> "",
               Duration |-> None, ChannelID |-> None, ChannelName |-> None,
               Transcript |-> NoTranscript]

\* get_video_metadata_and_transcript of the model's video: the metadata the
\* API returns and the transcript the provider has.
FetchedVideo(v, published_at, transcript) ==
    [v EXCEPT !.title = "Title", !.published_at = published_at,
              !.duration_minutes = "90", !.channel_id = "UC1",
              !.channel_name = "Channel", !.transcript = transcript,
              !.metadata_fetched = TRUE,
              !.transcript_fetched = HasTranscriptText(transcript)]

\* Video.serialize_video_to_json(root_dir): fetch is what the fetch does when
\* the metadata was not fetched before.
SerializeVideoToJson(fetch) ==
    LET v == jvideo.original
        fetched == IF v.metadata_fetched THEN v
                   ELSE FetchedVideo(v, fetch.published_at, fetch.transcript)
    IN /\ IF ~v.metadata_fetched /\ fetch.raises
          THEN jvideo' = [jvideo EXCEPT !.last = "serialize raised"]
          ELSE IF ~Truthy(fetched.title)
          THEN jvideo' = [jvideo EXCEPT !.original = fetched,
                                        !.last = "serialize returned None"]
          ELSE jvideo' = [jvideo EXCEPT !.original = fetched,
                                        !.file_exists = TRUE,
                                        !.file = JsonFile(ToDict(fetched)),
                                        !.last = "serialize returned path"]
       /\ UNCHANGED nonJsonVars

\* Video.create_from_json_file(file_path).
CreateFromJsonFile ==
    /\ jvideo.file_exists
    /\ jvideo' = [jvideo EXCEPT !.loaded_exists = TRUE,
                                !.loaded = FromJson(jvideo.file),
                                !.loaded_dict = NoJsonFile,
                                !.loaded_fetches = 0,
                                !.last = "create_from_json_file"]
    /\ UNCHANGED nonJsonVars

\* to_dict() on the loaded Video: it fetches first when the metadata is not
\* marked as fetched.
LoadedToDict(fetch) ==
    /\ jvideo.loaded_exists
    /\ LET v == jvideo.loaded
           fetched == IF v.metadata_fetched THEN v
                      ELSE FetchedVideo(v, fetch.published_at, fetch.transcript)
       IN jvideo' = [jvideo EXCEPT !.loaded = fetched,
                                   !.loaded_dict = ToDict(fetched),
                                   !.loaded_fetches = IF v.metadata_fetched
                                                      THEN jvideo.loaded_fetches
                                                      ELSE jvideo.loaded_fetches + 1,
                                   !.last = "to_dict"]
    /\ UNCHANGED nonJsonVars

Fetches == [raises : BOOLEAN, published_at : Datetimes,
            transcript : Transcripts \ {NoTranscript}]

\* A Video just constructed, or one whose metadata was fetched.
InitJson ==
    /\ \E v \in {NewVideo}
              \cup {[NewVideo EXCEPT !.title = t, !.published_at = p,
                                     !.duration_minutes = "90", !.channel_id = "UC1",
                                     !.channel_name = c, !.transcript = tr,
                                     !.metadata_fetched = TRUE,
                                     !.transcript_fetched = HasTranscriptText(tr)] :
                       t \in Titles, p \in Datetimes \cup {NoDatetime},
                       c \in ChannelNames, tr \in Transcripts} :
          jvideo = [original |-> v, file_exists |-> FALSE, file |-> NoJsonFile,
                    loaded_exists |-> FALSE, loaded |-> NewVideo,
                    loaded_dict |-> NoJsonFile, loaded_fetches |-> 0,
                    last |-> "none"]
    /\ IdleKey
    /\ IdleTranscript
    /\ IdleCache
    /\ IdleIds
    /\ IdleAnalysisExcept("json")

NextJson ==
    \/ \E fetch \in Fetches : SerializeVideoToJson(fetch)
    \/ CreateFromJsonFile
    \/ \E fetch \in Fetches : LoadedToDict(fetch)

SpecJson == InitJson /\ [][NextJson]_vars

-----------------------------------------------------------------------------
(* Claims about the JSON round trip of Video (SpecJson).                    *)

\* C18: a Video with fetched metadata and a non-empty title, written by
\* serialize_video_to_json and read by create_from_json_file, gives a Video
\* whose to_dict has the same Video ID, Title, Channel Name, Published At
\* and Transcript text and language code, and to_dict on it fetches nothing.
C18_JsonRoundTrip ==
    jvideo.loaded_exists /\ jvideo.last = "to_dict" =>
        LET d == ToDict(jvideo.original)
            l == jvideo.loaded_dict
        IN /\ l.VideoID = d.VideoID
           /\ l.Title = d.Title
           /\ l.ChannelName = d.ChannelName
           /\ l.PublishedAt = d.PublishedAt
           /\ (l.Transcript.kind = "None") = (d.Transcript.kind = "None")
           /\ l.Transcript.text = d.Transcript.text
           /\ l.Transcript.language = d.Transcript.language
           /\ jvideo.loaded_fetches = 0

C18_Witness ==
    /\ jvideo.loaded_exists
    /\ jvideo.last = "to_dict"
    /\ jvideo.original.title = "Titre: x/y"
    /\ jvideo.original.published_at.zone = "pytz"
    /\ jvideo.loaded.published_at.zone = "fixed"
    /\ jvideo.loaded_dict.PublishedAt = "2024-07-15T10:00:00-05:00"
    /\ jvideo.loaded_dict.Transcript.kind = "list"
    /\ jvideo.loaded_dict.Transcript.text = "wenben"

-----------------------------------------------------------------------------
(* utils.iso_duration_to_minutes.                                           *)

\* characters of the duration strings enumerated in full
MaxDurationLen == 4

\* A duration string is the sequence of its characters.
Digits == {"0", "1", "2", "3", "4", "5", "6", "7", "8", "9"}
DigitValue(c) ==
    CASE c = "0" -> 0 [] c = "1" -> 1 [] c = "2" -> 2 [] c = "3" -> 3
      [] c = "4" -> 4 [] c = "5" -> 5 [] c = "6" -> 6 [] c = "7" -> 7
      [] c = "8" -> 8 [] OTHER -> 9

\* int(text) of a run of digits.
RECURSIVE IntOf(_)
IntOf(digits) ==
    IF digits = <<>> THEN 0
    ELSE 10 * IntOf(SubSeq(digits, 1, Len(digits) - 1))
         + DigitValue(digits[Len(digits)])

\* re.search(r'(\d+)X', duration) for a letter X: the leftmost match is the
\* first run of digits that the letter follows; group(1) is the whole run.
\* found is FALSE when the search returns None.
Search(duration, letter) ==
    LET ends == {p \in 2..Len(duration) :
                    duration[p] = letter /\ duration[p - 1] \in Digits}
    IN IF ends = {} THEN [found |-> FALSE, group |-> <<>>]
       ELSE LET p == CHOOSE q \in ends : \A r \in ends : q <= r
                start == CHOOSE b \in 1..(p - 1) :
                            /\ \A k \in b..(p - 1) : duration[k] \in Digits
                            /\ (b = 1 \/ duration[b - 1] \notin Digits)
            IN [found |-> TRUE, group |-> SubSeq(duration, start, p - 1)]

\* iso_duration_to_minutes that drops the seconds instead of rounding up.
IsoDurationToMinutes_Floor(duration) ==
    LET days == Search(duration, "D")
        hours == Search(duration, "H")
        minutes == Search(duration, "M")
        seconds == Search(duration, "S")
    IN (IF days.found THEN IntOf(days.group) * 24 * 60 ELSE 0)
       + (IF hours.found THEN IntOf(hours.group) * 60 ELSE 0)
       + (IF minutes.found THEN IntOf(minutes.group) ELSE 0)
       + (IF seconds.found THEN IntOf(seconds.group) \div 60 ELSE 0)

\* iso_duration_to_minutes(duration).
IsoDurationToMinutes(duration) ==
    LET days == Search(duration, "D")
        hours == Search(duration, "H")
        minutes == Search(duration, "M")
        seconds == Search(duration, "S")
    IN (IF days.found THEN IntOf(days.group) * 24 * 60 ELSE 0)
       + (IF hours.found THEN IntOf(hours.group) * 60 ELSE 0)
       + (IF minutes.found THEN IntOf(minutes.group) ELSE 0)
       + (IF seconds.found THEN (IntOf(seconds.group) + 59) \div 60 ELSE 0)

\* The strings of the tests and of the docstring.
ExampleDurations ==
    {<<"P", "T", "1", "H", "3", "0", "M">>,
     <<"P", "T", "1", "H">>,
     <<"P", "T", "3", "0", "M">>,
     <<"P", "T", "1", "M", "3", "0", "S">>,
     <<"P", "T", "5", "9", "S">>,
     <<"P", "T", "0", "S">>,
     <<"P", "1", "D", "T", "2", "H", "3", "0", "M">>,
     <<"I", "n", "v", "a", "l", "i", "d">>}

\* Every string of up to MaxDurationLen of these characters.
DurationAlphabet == {"T", "D", "H", "M", "S", "1", "7"}
DurationStrings ==
    ExampleDurations
    \cup UNION {[1..n -> DurationAlphabet] : n \in 0..MaxDurationLen}

ComputeDuration ==
    /\ ~dur.computed
    /\ dur' = [dur EXCEPT !.computed = TRUE,
                          !.minutes = IsoDurationToMinutes(dur.duration)]
    /\ UNCHANGED nonDurationVars

InitDuration ==
    /\ \E duration \in DurationStrings :
          dur = [duration |-> duration, computed |-> FALSE, minutes |-> 0]
    /\ IdleKey
    /\ IdleTranscript
    /\ IdleCache
    /\ IdleIds
    /\ IdleAnalysisExcept("duration")

NextDuration == ComputeDuration

SpecDuration == InitDuration /\ [][NextDuration]_vars

-----------------------------------------------------------------------------
(* Claims about iso_duration_to_minutes (SpecDuration).                     *)

\* The integer written before a letter, read by one scan of the string from
\* the left: number is the run of digits read so far; 0 when no digits come
\* before the letter anywhere.
RECURSIVE Component(_, _, _)
Component(str, letter, number) ==
    IF str = <<>> THEN 0
    ELSE IF Head(str) \in Digits
    THEN Component(Tail(str), letter, Append(number, Head(str)))
    ELSE IF Head(str) = letter /\ number # <<>> THEN IntOf(number)
    ELSE Component(Tail(str), letter, <<>>)

CeilDiv60(n) == IF n % 60 = 0 THEN n \div 60 ELSE n \div 60 + 1

ExpectedMinutes(str) ==
    1440 * Component(str, "D", <<>>) + 60 * Component(str, "H", <<>>)
    + Component(str, "M", <<>>) + CeilDiv60(Component(str, "S", <<>>))

\* C19: iso_duration_to_minutes returns 1440*D + 60*H + M + ceil(S/60) for
\* the integers written before the letters D, H, M, S (0 when absent), 0 for
\* a string without such a component, and the values of the examples.
C19_DurationMinutes ==
    dur.computed =>
        /\ dur.minutes = ExpectedMinutes(dur.duration)
        /\ dur.duration = <<"P", "T", "1", "H", "3", "0", "M">> => dur.minutes = 90
        /\ dur.duration = <<"P", "T", "1", "H">> => dur.minutes = 60
        /\ dur.duration = <<"P", "T", "3", "0", "M">> => dur.minutes = 30
        /\ dur.duration = <<"P", "T", "1", "M", "3", "0", "S">> => dur.minutes = 2
        /\ dur.duration = <<"P", "T", "5", "9", "S">> => dur.minutes = 1
        /\ dur.duration = <<"P", "T", "0", "S">> => dur.minutes = 0
        /\ dur.duration = <<"P", "1", "D", "T", "2", "H", "3", "0", "M">> => dur.minutes = 1590
        /\ dur.duration = <<"I", "n", "v", "a", "l", "i", "d">> => dur.minutes = 0

C19_Witness ==
    /\ dur.computed
    /\ dur.duration = <<"P", "1", "D", "T", "2", "H", "3", "0", "M">>
    /\ dur.minutes = 1590

-----------------------------------------------------------------------------
(* demark.demark_setup.                                                     *)

\* bars of the table in the model
MaxBars == 6

ClosePrices == {10, 11, 12}

\* data['Setup'].iloc[i] = value is a chained assignment: data['Setup'] is
\* evaluated first and the value is set on its result.  Whether the write
\* reaches data depends on the pandas the program runs under: it does when
\* data['Setup'] is a view of the column, it does not under Copy-on-Write,
\* where data['Setup'] is always a separate object.
ChainedAssign(setup, i, value, copy_on_write) ==
    IF copy_on_write THEN setup ELSE [setup EXCEPT ![i] = value]

\* The loop of demark_setup; bar i of the model is data.iloc[i - 1].
RECURSIVE DemarkSetupLoop(_, _, _, _)
DemarkSetupLoop(close, setup, i, copy_on_write) ==
    IF i > Len(close) THEN setup
    ELSE IF close[i] < close[i - 4]
    THEN DemarkSetupLoop(close,
                         ChainedAssign(setup, i,
                                       IF setup[i - 1] > 0 THEN setup[i - 1] + 1 ELSE 1,
                                       copy_on_write),
                         i + 1, copy_on_write)
    ELSE IF close[i] > close[i - 4]
    THEN DemarkSetupLoop(close,
                         ChainedAssign(setup, i,
                                       IF setup[i - 1] < 0 THEN setup[i - 1] - 1 ELSE -1,
                                       copy_on_write),
                         i + 1, copy_on_write)
    ELSE DemarkSetupLoop(close, setup, i + 1, copy_on_write)

\* demark_setup(data): data['Setup'] = 0, then the loop from the fifth bar.
DemarkSetup(close, copy_on_write) ==
    DemarkSetupLoop(close, [i \in 1..Len(close) |-> 0], 5, copy_on_write)

CallDemarkSetup ==
    /\ ~bars.computed
    /\ bars' = [bars EXCEPT !.computed = TRUE,
                            !.Setup = DemarkSetup(bars.Close, bars.copy_on_write)]
    /\ UNCHANGED nonDemarkVars

\* The table fetch_stock_data returned, under either kind of pandas.
InitDemark ==
    /\ \E n \in 0..MaxBars, copy_on_write \in BOOLEAN :
          \E close \in [1..n -> ClosePrices] :
             bars = [Close |-> close, Setup |-> <<>>, computed |-> FALSE,
                     copy_on_write |-> copy_on_write]
    /\ IdleKey
    /\ IdleTranscript
    /\ IdleCache
    /\ IdleIds
    /\ IdleAnalysisExcept("demark")

NextDemark == CallDemarkSetup

SpecDemark == InitDemark /\ [][NextDemark]_vars

-----------------------------------------------------------------------------
(* Claims about demark_setup (SpecDemark).                                  *)

\* C20: Setup is 0 for the first four bars; from the fifth bar on it extends
\* the previous count by one when the close is below (above) the close four
\* bars earlier and the previous count is positive (negative), restarts at
\* 1 (-1) otherwise, and is 0 when the two closes are equal.
C20_SetupRecurrence ==
    bars.computed =>
        /\ Len(bars.Setup) = Len(bars.Close)
        /\ \A i \in 1..Len(bars.Close) :
              IF i <= 4 THEN bars.Setup[i] = 0
              ELSE /\ bars.Close[i] < bars.Close[i - 4] =>
                         bars.Setup[i] = IF bars.Setup[i - 1] > 0
                                         THEN bars.Setup[i - 1] + 1 ELSE 1
                   /\ bars.Close[i] > bars.Close[i - 4] =>
                         bars.Setup[i] = IF bars.Setup[i - 1] < 0
                                         THEN bars.Setup[i - 1] - 1 ELSE -1
                   /\ bars.Close[i] = bars.Close[i - 4] => bars.Setup[i] = 0

-----------------------------------------------------------------------------
(* demark.demark_countdown.                                                 *)

\* bars of the table in the model of demark_countdown
MaxCountdownBars == 4

\* <<Close, Low, High>> of one bar, Low <= Close <= High.
Quotes == {<<10, 10, 11>>, <<11, 10, 11>>, <<9, 9, 10>>}

\* demark_countdown reads only the sign of Setup.
SetupValues == {-1, 0, 1}

\* The loop of demark_countdown; bar i of the model is data.iloc[i - 1].
\* The writes are chained assignments, as in demark_setup.
RECURSIVE DemarkCountdownLoop(_, _, _, _)
DemarkCountdownLoop(data, countdown, i, copy_on_write) ==
    IF i > Len(data.Close) THEN countdown
    ELSE IF data.Setup[i] > 0 /\ data.Close[i] <= data.Low[i - 2]
    THEN DemarkCountdownLoop(data,
                             ChainedAssign(countdown, i,
                                           IF countdown[i - 1] > 0
                                           THEN countdown[i - 1] + 1 ELSE 1,
                                           copy_on_write),
                             i + 1, copy_on_write)
    ELSE IF data.Setup[i] < 0 /\ data.Close[i] >= data.High[i - 2]
    THEN DemarkCountdownLoop(data,
                             ChainedAssign(countdown, i,
                                           IF countdown[i - 1] < 0
                                           THEN countdown[i - 1] - 1 ELSE -1,
                                           copy_on_write),
                             i + 1, copy_on_write)
    ELSE DemarkCountdownLoop(data, countdown, i + 1, copy_on_write)

\* demark_countdown(data): data['Countdown'] = 0, then the loop from the
\* third bar.
DemarkCountdown(data, copy_on_write) ==
    DemarkCountdownLoop(data, [i \in 1..Len(data.Close) |-> 0], 3, copy_on_write)

CallDemarkCountdown ==
    /\ ~bars.computed
    /\ bars' = [bars EXCEPT !.computed = TRUE,
                            !.Countdown = DemarkCountdown(bars, bars.copy_on_write)]
    /\ UNCHANGED nonDemarkVars

\* A table with the columns Close, Low, High and Setup, under either kind of
\* pandas.
InitCountdown ==
    /\ \E n \in 0..MaxCountdownBars, copy_on_write \in BOOLEAN :
          \E quote \in [1..n -> Quotes], setup \in [1..n -> SetupValues] :
             bars = [Close |-> [i \in 1..n |-> quote[i][1]],
                     Low |-> [i \in 1..n |-> quote[i][2]],
                     High |-> [i \in 1..n |-> quote[i][3]],
                     Setup |-> setup, Countdown |-> <<>>, computed |-> FALSE,
                     copy_on_write |-> copy_on_write]
    /\ IdleKey
    /\ IdleTranscript
    /\ IdleCache
    /\ IdleIds
    /\ IdleAnalysisExcept("demark")

NextCountdown == CallDemarkCountdown

SpecCountdown == InitCountdown /\ [][NextCountdown]_vars

-----------------------------------------------------------------------------
(* Claims about demark_countdown (SpecCountdown).                           *)

\* Bar i qualifies for the buy (sell) countdown.
QualifiesUp(i) == bars.Setup[i] > 0 /\ bars.Close[i] <= bars.Low[i - 2]
QualifiesDown(i) == bars.Setup[i] < 0 /\ bars.Close[i] >= bars.High[i - 2]

\* C21: Countdown is 0 for the first two bars; from the third bar on it is
\* positive exactly on a bar with Setup > 0 and close <= the low two bars
\* earlier, negative exactly on a bar with Setup < 0 and close >= the high
\* two bars earlier, and 0 otherwise; a non-zero value extends the previous
\* count of the same sign by one and restarts at 1 or -1 otherwise, so a
\* count of k is reached only after k consecutive qualifying bars.
C21_CountdownRecurrence ==
    bars.computed =>
        /\ Len(bars.Countdown) = Len(bars.Close)
        /\ \A i \in 1..Len(bars.Close) :
              IF i <= 2 THEN bars.Countdown[i] = 0
              ELSE /\ bars.Countdown[i] > 0 <=> QualifiesUp(i)
                   /\ bars.Countdown[i] < 0 <=> QualifiesDown(i)
                   /\ QualifiesUp(i) =>
                         bars.Countdown[i] = IF bars.Countdown[i - 1] > 0
                                             THEN bars.Countdown[i - 1] + 1 ELSE 1
                   /\ QualifiesDown(i) =>
                         bars.Countdown[i] = IF bars.Countdown[i - 1] < 0
                                             THEN bars.Countdown[i - 1] - 1 ELSE -1
                   /\ bars.Countdown[i] > 0 =>
                         /\ bars.Countdown[i] <= i - 2
                         /\ \A j \in (i - bars.Countdown[i] + 1)..i : QualifiesUp(j)
                   /\ bars.Countdown[i] < 0 =>
                         /\ -bars.Countdown[i] <= i - 2
                         /\ \A j \in (i + bars.Countdown[i] + 1)..i : QualifiesDown(j)

-----------------------------------------------------------------------------
(* YouTubeAPIClient.__init__ run by two threads of one process.  The class  *)
(* attribute _working_key is shared; nothing in the class takes a lock, so  *)
(* the threads interleave between any two statements.  The steps of the     *)
(* model are: the working-key check with the reading of the keys (l.32-48), *)
(* one _try_key call up to the answer of the test request (l.75-89 and      *)
(* l.94-98), the write of _current_key (l.90), the write of _working_key    *)
(* (l.91).                                                                  *)

Threads == {"t1", "t2"}

NoThread == [pc |-> "not_started", api_key |-> None, self |-> NoSelf,
             probes |-> 0, result |-> "none"]

\* YouTubeAPIClient._working_key = key (l.91): an unconditional write.
\* A write that keeps a key already pinned.
WorkingKeyWrite_KeepFirst(wk, key) == IF wk # None THEN wk ELSE key

WorkingKeyWrite(wk, key) == key

\* __init__ up to the first probe, in thread t.
ThreadConstruct(t, api_key) ==
    /\ thread[t].pc = "not_started"
    /\ IF working_key # None
       THEN thread' = [thread EXCEPT ![t] =
                          [@ EXCEPT !.pc = "done", !.api_key = api_key,
                                    !.self = [NoSelf EXCEPT !.youtube = working_key,
                                                            !.current_key = working_key],
                                    !.result = "ok"]]
       ELSE LET primary == IF api_key # None THEN api_key ELSE environ[1]
                s == [NoSelf EXCEPT !.primary_key = primary,
                                    !.secondary_key = environ[2],
                                    !.tertiary_key = environ[3]]
            IN  thread' = [thread EXCEPT ![t] =
                              IF primary = None
                              THEN [@ EXCEPT !.pc = "done", !.api_key = api_key,
                                             !.self = s, !.result = "ValueError"]
                              ELSE [@ EXCEPT !.pc = "try_primary", !.api_key = api_key,
                                             !.self = s]]
    /\ UNCHANGED <<keyVars, last_pin, nonThreadVars>>

\* One `if key and self._try_key(key)` step of __init__ in thread t, up to
\* the answer of the test request: on success the thread goes on to the two
\* writes, on a quota error to `next`, any other HttpError propagates.
ThreadTryStep(t, key, next) ==
    LET th == thread[t]
        fail == IF next = "raise_quota"
                THEN [th EXCEPT !.pc = "done", !.result = "YouTubeQuotaExceededError"]
                ELSE [th EXCEPT !.pc = next]
    IN  IF key = None \/ key \in th.self.tried_keys
        THEN thread' = [thread EXCEPT ![t] = fail]
        ELSE LET s1 == [th.self EXCEPT !.tried_keys = @ \cup {key}, !.youtube = key]
                 r == ProbeResponse(key)
             IN  thread' = [thread EXCEPT ![t] =
                    IF ~IsHttpError(r)
                    THEN [th EXCEPT !.self = s1, !.probes = @ + 1, !.pc = "set_current_key"]
                    ELSE IF r.status = 403 /\ r.text = "quota"
                    THEN [fail EXCEPT !.self = s1, !.probes = @ + 1]
                    ELSE [th EXCEPT !.self = s1, !.probes = @ + 1, !.pc = "done",
                                    !.result = "HttpError"]]

ThreadTryPrimary(t) ==
    /\ thread[t].pc = "try_primary"
    /\ ThreadTryStep(t, thread[t].self.primary_key, "try_secondary")
    /\ UNCHANGED <<keyVars, last_pin, nonThreadVars>>

ThreadTrySecondary(t) ==
    /\ thread[t].pc = "try_secondary"
    /\ ThreadTryStep(t, thread[t].self.secondary_key, "try_tertiary")
    /\ UNCHANGED <<keyVars, last_pin, nonThreadVars>>

ThreadTryTertiary(t) ==
    /\ thread[t].pc = "try_tertiary"
    /\ ThreadTryStep(t, thread[t].self.tertiary_key, "raise_quota")
    /\ UNCHANGED <<keyVars, last_pin, nonThreadVars>>

\* self._current_key = key (l.90)
ThreadSetCurrentKey(t) ==
    /\ thread[t].pc = "set_current_key"
    /\ thread' = [thread EXCEPT ![t] =
                     [@ EXCEPT !.self.current_key = thread[t].self.youtube,
                               !.pc = "set_working_key"]]
    /\ UNCHANGED <<keyVars, last_pin, nonThreadVars>>

\* YouTubeAPIClient._working_key = key; return True (l.91-92), and the
\* return of __init__.
ThreadSetWorkingKey(t) ==
    /\ thread[t].pc = "set_working_key"
    /\ working_key' = WorkingKeyWrite(working_key, thread[t].self.youtube)
    /\ last_pin' = t
    /\ thread' = [thread EXCEPT ![t] = [@ EXCEPT !.pc = "done", !.result = "ok"]]
    /\ UNCHANGED <<environ, key_state, self, client, pc, ctor, last_success, call,
                   nonThreadVars>>

InitThreads ==
    /\ environ = RequestEnviron
    /\ key_state \in [Keys -> KeyStates]
    /\ FreshProcess
    /\ thread = [t \in Threads |-> NoThread]
    /\ last_pin = None
    /\ IdleTranscript
    /\ IdleCache
    /\ IdleIds
    /\ IdleAnalysisExcept("thread")

NextThreads ==
    \/ \E t \in Threads, api_key \in KeyOpt : ThreadConstruct(t, api_key)
    \/ \E t \in Threads : ThreadTryPrimary(t)
    \/ \E t \in Threads : ThreadTrySecondary(t)
    \/ \E t \in Threads : ThreadTryTertiary(t)
    \/ \E t \in Threads : ThreadSetCurrentKey(t)
    \/ \E t \in Threads : ThreadSetWorkingKey(t)
    \/ \E k \in Keys : ExhaustKey(k)

SpecThreads == InitThreads /\ [][NextThreads]_vars

-----------------------------------------------------------------------------
(* Claims about concurrent construction (SpecThreads).                      *)

\* The client of thread t is constructed and its key is not the working key.
Diverged(t) ==
    /\ thread[t].result = "ok"
    /\ thread[t].self.current_key # working_key

\* C22: the working key is whatever the last write left: it is the current
\* key of the thread that wrote last and of no thread in particular
\* otherwise, so a client constructed concurrently can hold a key that is
\* not the working key; that happens only when both threads probed keys and
\* the other thread's write came last.
C22_LastWriteWins ==
    /\ (last_pin = None) <=> (working_key = None)
    /\ last_pin # None => working_key = thread[last_pin].self.current_key
    /\ \A t \in Threads :
          Diverged(t) => /\ \A u \in Threads : thread[u].probes > 0
                         /\ last_pin \in Threads \ {t}

\* Both threads have constructed their client, both probed, and the working
\* key is not the key of the client of t1.
C22_Witness ==
    /\ \A t \in Threads : thread[t].result = "ok" /\ thread[t].probes > 0
    /\ Diverged("t1")

-----------------------------------------------------------------------------
(* Claims about the working key over the life of a single-threaded process  *)
(* (SpecRequest).                                                           *)

\* C23: once pinned, the working key is never changed or cleared by any
\* step, a request that fails with quota exceeded under it included; a
\* construction that starts with it pinned probes no key and its client uses
\* the pinned key, and so does every request made while it is pinned.
C23_WorkingKeyWriteOnce ==
    /\ [][working_key # None => working_key' = working_key]_vars
    /\ [](ctor.working_at_start # None =>
             /\ ctor.probes = <<>>
             /\ ctor.result = "ok"
             /\ client.current_key = working_key
             /\ client.youtube = working_key)
    /\ []((working_key # None /\ call.op # "none") =>
             call.keys_used = <<working_key>>)

\* A second client was constructed with the key pinned, the key ran out of
\* quota, a request under it failed with quota exceeded, and the key is
\* still the working key.
C23_Witness ==
    /\ ctor.n = 2
    /\ ctor.working_at_start # None
    /\ ctor.probes = <<>>
    /\ call.outcome = "raise"
    /\ call.exc.kind = "YouTubeQuotaExceededError"
    /\ call.key = working_key
    /\ \E k \in Keys \ {working_key} : key_state[k] = "ok"

-----------------------------------------------------------------------------
(* Claims about a probe that fails with another error than quota (SpecKey). *)

IsOtherHttpError(r) == IsHttpError(r) /\ ~IsQuotaFailure(r)

\* C24: a probe that fails with an HttpError other than a 403 quota error
\* ends the construction at once with that error: it is the last probe, the
\* probes before it failed with quota errors, and the working key is unset;
\* a construction ends with an HttpError in no other way.
C24_ProbeErrorPropagates ==
    /\ \A i \in 1..Len(ctor.probes) :
          IsOtherHttpError(ctor.probes[i].resp) =>
              /\ i = Len(ctor.probes)
              /\ ctor.result = "HttpError"
              /\ pc = "idle"
    /\ ctor.result = "HttpError" =>
          /\ ctor.probes # <<>>
          /\ IsOtherHttpError(ctor.probes[Len(ctor.probes)].resp)
          /\ \A i \in 1..(Len(ctor.probes) - 1) : IsQuotaFailure(ctor.probes[i].resp)
          /\ ctor.working_at_start = None
          /\ working_key = None

\* The primary key was out of quota, the probe of the secondary key failed
\* with another error, and the tertiary key, which would have worked, was
\* not probed.
C24_Witness ==
    /\ ctor.result = "HttpError"
    /\ Len(ctor.probes) = 2
    /\ ConfiguredSeq[3] \in Keys \ {ConfiguredSeq[1], ConfiguredSeq[2]}
    /\ key_state[ConfiguredSeq[3]] = "ok"
    /\ working_key = None

-----------------------------------------------------------------------------
(* Claims about the caching of the transcript (SpecTranscript).             *)

\* C25: a successful get_transcript leaves its pair on the object with the
\* fetched flag set, and from then on every call returns that pair without
\* contacting the provider; a call that returned (None, None) leaves the
\* flag False, and a call made while the flag is False contacts the provider.
C25_OnlySuccessCached ==
    /\ []((tcall.made /\ tcall.outcome = "return" /\ tcall.value # NonePair) =>
             (video.transcript_fetched /\ video.transcript = tcall.value))
    /\ []((tcall.made /\ tcall.outcome = "return" /\ tcall.value = NonePair) =>
             ~video.transcript_fetched)
    /\ [][video.transcript_fetched =>
             /\ video'.transcript_fetched
             /\ video'.transcript = video.transcript
             /\ tcall' # tcall =>
                   /\ tcall'.contacts = 0
                   /\ tcall'.outcome = "return"
                   /\ tcall'.value = video.transcript]_vars
    /\ [][(~video.transcript_fetched /\ tcall' # tcall) => tcall'.contacts >= 1]_vars

\* A call answered from the object, after an earlier call had fetched the
\* pair.
C25_Witness ==
    /\ tcall.made
    /\ tcall.cached
    /\ tcall.contacts = 0
    /\ tcall.value = video.transcript
    /\ tcall.value # NonePair

-----------------------------------------------------------------------------
(* Claims about a failing page request in update_video_ids (SpecIds).       *)

\* The call has ended.
Ended == upd.n > 0 /\ ~upd.running

\* C26: a call one of whose page requests failed has ended there, without
\* another request: it returned the ids the pages before the failure brought,
\* video_ids holds them after the ids it held before the call, and
\* last_update is set by the call, as it is by a call that received every
\* page.
C26_PartialResultReturned ==
    /\ upd.failed =>
          /\ ~upd.running
          /\ upd.returned = upd.brought
          /\ upd.returned = upd.new_video_ids
          /\ video_ids = upd.before \o upd.brought
    /\ Ended => last_update = upd.n

\* A call that failed after a page which announced a further page, and
\* returned the ids of the pages it had received.
C26_Witness ==
    /\ Ended /\ upd.failed
    /\ upd.pages >= 1
    /\ upd.last_next # None
    /\ upd.returned # <<>>
    /\ last_update = upd.n

-----------------------------------------------------------------------------
(* Claims about the processors of the cached video clients (SpecCache).     *)

\* C27: every cached video client holds a processor for every name in the
\* channel's processor map.
C27_CachedClientsConfigured ==
    \A i \in 1..Len(video_clients) : processors \subseteq video_clients[i].processors

-----------------------------------------------------------------------------
(* Claims about the history of YouTubeVideoClient.chat (SpecVideoClient).   *)

\* A chat call that got past the check of the name and of the transcript.
ChatAsked ==
    /\ vcall.op = "chat"
    /\ vcall.raised = None
    /\ ~NoTranscriptAvailable(vclient.transcript)

\* C28: a chat call invokes the model once, with the system message holding
\* the transcript and the question and no history between them, whatever
\* the processor's buffer held before; after a call the model answered the
\* buffer holds the one exchange of that call, and after a call it failed
\* the buffer is empty.
C28_ChatStartsAfresh ==
    ChatAsked =>
        LET p == vclient.processors[vcall.names[1]]
        IN  /\ vcall.invocations =
                  << <<Message("system", vclient.transcript[1]),
                       Message("human", vcall.question)>> >>
            /\ p.has_chat_chain
            /\ p.chat_context = vclient.transcript[1]
            /\ vcall.result # None =>
                  p.memory = <<[input |-> vcall.question, output |-> vcall.result]>>
            /\ vcall.result = None => p.memory = <<>>

\* A question answered on a processor whose buffer held the exchange of
\* another question.
C28_Witness ==
    /\ ChatAsked
    /\ vcall.result # None
    /\ vcall.before.processors[vcall.names[1]].memory # <<>>
    /\ vcall.before.processors[vcall.names[1]].memory[1].input # vcall.question

-----------------------------------------------------------------------------
(* Video.fetch_transcript of the news analyzer                              *)
(* (news/youtube_analyzer/video.py).                                        *)

\* largest max_retries a call is given in the model (the default is 5)
MaxRetries == 4

\* retry_delay in seconds (the default is 3.0)
RetryDelays == {1, 3}

\* How one attempt can go:
\*   "transcript"     get_transcript returns the entries of a transcript
\*   "empty"          get_transcript returns no entries
\*   "disabled_found" get_transcript raises "Subtitles are disabled", and
\*                    one of the listed transcripts is fetched
\*   "disabled_none"  the same, and no listed transcript can be fetched
\*   "list_raises"    the same, and list_transcripts raises in the handler
\*   "error"          get_transcript raises something else
AttemptOutcomes == {"transcript", "empty", "disabled_found", "disabled_none",
                    "list_raises", "error"}

\* The attempts that reach `return True`.
Yields(outcome) == outcome \in {"transcript", "disabled_found"}

\* sleep_time = retry_delay * (attempt + 1), attempt counting from 0.
SleepTime(retry_delay, attempt) == retry_delay * (attempt + 1)

NoNVideo == [running |-> FALSE, max_retries |-> 0, retry_delay |-> 1,
             attempt |-> 0, outcomes |-> <<>>, sleeps |-> <<>>,
             result |-> "none", transcript |-> None]

\* fetch_transcript(max_retries, retry_delay) up to the loop; with
\* max_retries = 0 the loop body never runs and the call returns False.
CallFetchTranscript(max_retries, retry_delay) ==
    /\ ~nvideo.running
    /\ nvideo.result = "none"
    /\ nvideo' = [NoNVideo EXCEPT !.running = (max_retries > 0),
                                  !.max_retries = max_retries,
                                  !.retry_delay = retry_delay,
                                  !.result = IF max_retries > 0 THEN "none" ELSE "False"]
    /\ UNCHANGED nonNewsVars

\* One turn of the loop.  Every exception of the attempt is caught, by the
\* inner handler or, when the inner handler raises itself, by the outer one.
FetchAttempt(outcome) ==
    /\ nvideo.running
    /\ LET attempt == nvideo.attempt
           last == ~(attempt < nvideo.max_retries - 1)
           tried == [nvideo EXCEPT !.outcomes = Append(@, outcome)]
       IN  nvideo' =
              IF Yields(outcome)
              THEN [tried EXCEPT !.transcript = "text", !.result = "True",
                                 !.running = FALSE]
              ELSE [tried EXCEPT
                       !.sleeps = IF last THEN @
                                  ELSE Append(@, SleepTime(nvideo.retry_delay, attempt)),
                       !.attempt = attempt + 1,
                       !.running = ~last,
                       !.result = IF last THEN "False" ELSE "none"]
    /\ UNCHANGED nonNewsVars

InitNews ==
    /\ nvideo = NoNVideo
    /\ IdleKey
    /\ IdleTranscript
    /\ IdleCache
    /\ IdleIds
    /\ IdleAnalysisExcept("news")

NextNews ==
    \/ \E max_retries \in 0..MaxRetries, retry_delay \in RetryDelays :
          CallFetchTranscript(max_retries, retry_delay)
    \/ \E outcome \in AttemptOutcomes : FetchAttempt(outcome)

SpecNews == InitNews /\ [][NextNews]_vars

-----------------------------------------------------------------------------
(* Claims about fetch_transcript of the news analyzer (SpecNews).           *)

\* The attempts made, the failed ones among them.
Attempts == Len(nvideo.outcomes)
AllFailed == \A i \in 1..Attempts : ~Yields(nvideo.outcomes[i])

\* The attempts and the result: at most max_retries attempts, True at the
\* first attempt that yields a transcript, False after max_retries failed
\* attempts; a wait after every failed attempt but the last.
RetriesAndResult ==
    /\ Attempts <= nvideo.max_retries
    /\ \A i \in 1..(Attempts - 1) : ~Yields(nvideo.outcomes[i])
    /\ nvideo.result = "True" <=> (Attempts > 0 /\ Yields(nvideo.outcomes[Attempts]))
    /\ nvideo.result = "False" <=> (AllFailed /\ Attempts = nvideo.max_retries
                                        /\ ~nvideo.running
                                        /\ nvideo # NoNVideo)
    /\ nvideo.result = "True" => Len(nvideo.sleeps) = Attempts - 1
    /\ (nvideo.result = "False" /\ nvideo.max_retries > 0) =>
          Len(nvideo.sleeps) = nvideo.max_retries - 1
    /\ nvideo.running => (AllFailed /\ Len(nvideo.sleeps) = Attempts)

\* The waits form a geometric progression with a ratio above one.
GrowsExponentially(sleeps) ==
    /\ \A k \in 1..(Len(sleeps) - 1) : sleeps[k + 1] > sleeps[k]
    /\ \A k \in 2..(Len(sleeps) - 1) : sleeps[k + 1] * sleeps[k - 1] = sleeps[k] * sleeps[k]

\* C29: fetch_transcript makes at most max_retries attempts, returns True at
\* the first attempt that yields a transcript and False after max_retries
\* failed attempts, waits after every failed attempt but the last, and the
\* wait after attempt k grows exponentially in k.
C29_RetriesWithExponentialBackoff ==
    /\ RetriesAndResult
    /\ GrowsExponentially(nvideo.sleeps)

-----------------------------------------------------------------------------
(* The video CLI (youtube_analyzer/apps/video.py): parse_args, main,        *)
(* initialize_client and the loop of chat_mode.                             *)

\* largest number typed at "Select model number"
MaxChoice == 3

\* The processors initialize_client registers, in the order it adds them.
CliProcessors == <<"claude_37_sonnet", "gpt_4o">>

\* --chat-model: absent, or a name.
ChatModelArgs == {None, "claude_37_sonnet", "gpt_4o"}

\* --models: absent (written <<>>), registered names, or a name that
\* initialize_client does not register.
ModelsArgs == {<<>>, <<"gpt_4o">>, <<"claude_37_sonnet", "gpt_4o">>,
               <<"claude_35_sonnet">>}

\* What initialize_client leaves registered: a processor is added when its
\* API key is set and add_processor does not raise.
RegisteredLists == {<<>>, <<"claude_37_sonnet">>, <<"gpt_4o">>, CliProcessors}

\* What the user types at "Select model number": a number, or something
\* int() rejects.
ChoiceInputs == [valid : {TRUE}, value : 0..MaxChoice] \cup {[valid |-> FALSE, value |-> 0]}

NoInput == [kind |-> "none", choice |-> [valid |-> FALSE, value |-> 0]]

NoCli == [pc |-> "start",
          args |-> [chat |-> FALSE, chat_only |-> FALSE, chat_model |-> None,
                    models |-> <<>>],
          analysed |-> FALSE, model |-> None, available_models |-> <<>>,
          current_model |-> None, last_input |-> NoInput,
          switched |-> FALSE, chat_name |-> "none", chat_raised |-> FALSE,
          ended_by |-> "none"]

\* main, l.292-295: the model handed to chat_mode.
ChatModelOf(args) ==
    IF args.chat_model # None THEN args.chat_model
    ELSE IF args.models # <<>> THEN args.models[1] ELSE None

\* parse_args and main up to the call of chat_mode: --chat with --chat-only
\* is a usage error; the analysis runs unless --chat-only; chat mode is
\* entered with --chat or --chat-only.
Main(args) ==
    /\ cli.pc = "start"
    /\ cli' = IF args.chat /\ args.chat_only
              THEN [cli EXCEPT !.pc = "done", !.args = args, !.ended_by = "usage_error"]
              ELSE IF args.chat \/ args.chat_only
              THEN [cli EXCEPT !.pc = "chat_mode", !.args = args,
                               !.analysed = ~args.chat_only,
                               !.model = ChatModelOf(args)]
              ELSE [cli EXCEPT !.pc = "done", !.args = args, !.analysed = TRUE,
                               !.ended_by = "no_chat"]
    /\ UNCHANGED nonCliVars

\* chat_mode up to the loop, the client initialised.
EnterChatMode(registered) ==
    /\ cli.pc = "chat_mode"
    /\ cli' = [cli EXCEPT !.pc = "loop", !.available_models = registered,
                          !.current_model = cli.model]
    /\ UNCHANGED nonCliVars

\* chat_mode when initialize_client returns None: YouTubeVideoClient(...)
\* raised.  (The call of l.74-76 passes no youtube_api_key, which the
\* constructor of libs/video_client.py l.80-82 requires.)
ClientNotInitialized ==
    /\ cli.pc = "chat_mode"
    /\ cli' = [cli EXCEPT !.pc = "done", !.ended_by = "no_client"]
    /\ UNCHANGED nonCliVars

\* The user types exit.
LoopExit ==
    /\ cli.pc = "loop"
    /\ cli' = [cli EXCEPT !.pc = "done", !.ended_by = "exit",
                          !.last_input = [NoInput EXCEPT !.kind = "exit"]]
    /\ UNCHANGED nonCliVars

\* Ctrl-C at a prompt.
LoopKeyboardInterrupt ==
    /\ cli.pc = "loop"
    /\ cli' = [cli EXCEPT !.pc = "done", !.ended_by = "interrupt",
                          !.last_input = [NoInput EXCEPT !.kind = "interrupt"]]
    /\ UNCHANGED nonCliVars

\* The user types switch and then `choice`.
LoopSwitch(choice) ==
    /\ cli.pc = "loop"
    /\ LET index == choice.value - 1
           typed == [kind |-> "switch", choice |-> choice]
       IN  cli' = IF choice.valid /\ 0 <= index /\ index < Len(cli.available_models)
                  THEN [cli EXCEPT !.current_model = cli.available_models[index + 1],
                                   !.last_input = typed, !.switched = TRUE]
                  ELSE [cli EXCEPT !.last_input = typed]
    /\ UNCHANGED nonCliVars

\* The user types nothing.
LoopEmptyQuestion ==
    /\ cli.pc = "loop"
    /\ cli' = [cli EXCEPT !.last_input = [NoInput EXCEPT !.kind = "empty"]]
    /\ UNCHANGED nonCliVars

\* The user types a question: client.chat(current_model, question), whose
\* ValueError for a name that is not registered is caught and printed by
\* the loop.
LoopQuestion ==
    /\ cli.pc = "loop"
    /\ cli' = [cli EXCEPT !.last_input = [NoInput EXCEPT !.kind = "question"],
                          !.chat_name = cli.current_model,
                          !.chat_raised =
                              cli.current_model \notin Range(cli.available_models)]
    /\ UNCHANGED nonCliVars

InitCli ==
    /\ cli = NoCli
    /\ IdleKey
    /\ IdleTranscript
    /\ IdleCache
    /\ IdleIds
    /\ IdleAnalysisExcept("cli")

NextCli ==
    \/ \E args \in [chat : BOOLEAN, chat_only : BOOLEAN, chat_model : ChatModelArgs,
                    models : ModelsArgs] : Main(args)
    \/ \E registered \in RegisteredLists : EnterChatMode(registered)
    \/ ClientNotInitialized
    \/ LoopExit
    \/ LoopKeyboardInterrupt
    \/ \E choice \in ChoiceInputs : LoopSwitch(choice)
    \/ LoopEmptyQuestion
    \/ LoopQuestion

SpecCli == InitCli /\ [][NextCli]_vars

-----------------------------------------------------------------------------
(* Claims about the chat mode of the video CLI (SpecCli).                   *)

InLoopWithoutChatModel ==
    /\ cli.pc = "loop" \/ cli.ended_by \in {"exit", "interrupt"}
    /\ cli.args.chat_model = None

\* The current model changes only through switch with a valid index, and
\* the loop ends only on exit or a keyboard interrupt.
SwitchAndEnd ==
    /\ [][(cli.pc = "loop" /\ cli'.current_model # cli.current_model) =>
             /\ cli'.last_input.kind = "switch"
             /\ cli'.last_input.choice.valid
             /\ cli'.last_input.choice.value \in 1..Len(cli.available_models)
             /\ cli'.current_model =
                   cli.available_models[cli'.last_input.choice.value]]_vars
    /\ [][(cli.pc = "loop" /\ cli'.pc # "loop") =>
             cli'.last_input.kind \in {"exit", "interrupt"}]_vars

====
